---------------------------- MODULE Spec2Model ----------------------------
(***************************************************************************)
(* A model of codexfs: the image builder (tree walk, file reorder,         *)
(* compression pipeline, space allocator, inode and directory writer) and  *)
(* the mount-side loader and reader.                                       *)
(*                                                                         *)
(* The program keeps its state in process-wide singletons (buffer manager, *)
(* compress manager, superblock, inode table, inode vector); each is one   *)
(* variable here.  Every subsystem has a specification of its own          *)
(* (SpecAlloc, SpecCmpr, Spec, SpecReorder, SpecDir) over the same         *)
(* variables; a specification leaves the variables it does not use at      *)
(* their idle value.                                                       *)
(***************************************************************************)
EXTENDS Integers, Sequences, FiniteSets, TLC

VARIABLES
    pc,          \* position of the running program in its sequence of steps
    bufmgr,      \* buffer.rs BufferManager: blocks, free table, tail block
    allocs,      \* log of the regions balloc has returned (observer)
    cmpr_mgr,    \* compress manager: files list, origin_data cursor
    inodes,      \* the in-memory inodes, by handle
    sb,          \* sb.rs SuperBlock fields
    img,         \* the image file: data blocks and inode tails
    walk,        \* tree walk: source tree, call stack, inode table, inode vec
    mnt,         \* mount side: the inodes loaded from the image
    rd,          \* the last request served at mount and its reply
    ro           \* reorder: distance matrix, hash orders, paths of the two runs

vars == <<pc, bufmgr, allocs, cmpr_mgr, inodes, sb, img, walk, mnt, rd, ro>>

Idle == "idle"

-----------------------------------------------------------------------------
(* Bounds of the model *)

\* number of balloc calls in one behaviour of SpecAlloc
MaxCalls == 3

-----------------------------------------------------------------------------
(* Program constants *)

\* default block size, 1 << 12 (the allocator reads it through get_sb().blksz())
CODEXFS_BLKSIZ_BITS == 12

CODEXFS_BLKSIZ == 2 ^ CODEXFS_BLKSIZ_BITS

\* log2 of the inode slot size; size_of::<CodexFsInode>() == 1 << CODEXFS_ISLOT_BITS
CODEXFS_ISLOT_BITS == 6

SizeOfCodexFsInode == 2 ^ CODEXFS_ISLOT_BITS

\* size_of::<CodexFsSuperBlock>()
SizeOfCodexFsSuperBlock == 128

\* size_of::<CodexFsDirent>()
SizeOfCodexFsDirent == 12

-----------------------------------------------------------------------------
(* utils.rs *)

\* (value + alignment - 1) & !(alignment - 1), alignment a power of two
round_up(value, alignment) ==
    ((value + alignment - 1) \div alignment) * alignment

\* value & !(alignment - 1), alignment a power of two
round_down(value, alignment) == (value \div alignment) * alignment

Min(a, b) == IF a <= b THEN a ELSE b

-----------------------------------------------------------------------------
(* buffer.rs: the allocator.                                               *)
(*                                                                         *)
(* A BufferManager is a record                                             *)
(*   blk_off : sequence, blk_off[id + 1] is BufferBlock.blk_off of block   *)
(*             id (blocks are created with ids 0, 1, 2, ...);              *)
(*   table   : the free table.  The code keeps one vector per remaining    *)
(*             room; this is the sequence of all entries [idx, id] in the  *)
(*             order they were pushed, idx being the vector block id was   *)
(*             pushed to, and table[i] of the code is its subsequence of   *)
(*             the entries with idx = i;                                   *)
(*   tail    : blk_id of tail_blk;                                         *)
(*   panic   : TRUE once an assertion or panic!() of the allocator fired.  *)
(***************************************************************************)

BufferTypes == {"Meta", "Inode", "ZData", "Data"}

get_align(btype) ==
    CASE btype = "Meta"  -> 1
      [] btype = "Inode" -> SizeOfCodexFsInode
      [] btype = "ZData" -> CODEXFS_BLKSIZ
      [] btype = "Data"  -> 1

blk_id_to_addr(blk_id) == blk_id * CODEXFS_BLKSIZ

\* BufferBlock::addr
addr(bm, id) == blk_id_to_addr(id) + bm.blk_off[id + 1]

tail_blk_id(bm) == bm.tail

\* the index push_block computes for a block: blksz - blk_off
bucket_of(bm, id) == CODEXFS_BLKSIZ - bm.blk_off[id + 1]

\* table[i] of the code, as a sequence in push order
bucket(bm, i) == SelectSeq(bm.table, LAMBDA e : e.idx = i)

\* push_block: table[blksz - off].push(buf_blk); the index must be in 0..blksz
push_block(bm, id) ==
    [bm EXCEPT !.table = Append(@, [idx |-> bucket_of(bm, id), id |-> id]),
               !.panic = @ \/ bucket_of(bm, id) < 0]

\* Vec::remove / Vec::pop: the table without its k-th entry
table_remove(bm, k) ==
    [bm EXCEPT !.table = SubSeq(@, 1, k - 1) \o SubSeq(@, k + 1, Len(@))]

\* the same without the removal from the old vector
update_block_no_remove(bm, id, new_off) ==
    push_block([bm EXCEPT !.blk_off[id + 1] = new_off], id)

\* update_block: the first entry of the block in the vector of its current
\* offset is removed, if there is one; then the offset is set and the block
\* pushed
update_block(bm, id, new_off) ==
    LET at == {k \in 1..Len(bm.table) :
                  bm.table[k] = [idx |-> bucket_of(bm, id), id |-> id]}
        removed == IF at = {} THEN bm
                   ELSE table_remove(bm, CHOOSE k \in at : \A x \in at : k <= x)
    IN  push_block([removed EXCEPT !.blk_off[id + 1] = new_off], id)

\* BufferManager::new
BufferManagerNew ==
    push_block([blk_off |-> <<0>>, table |-> <<>>, tail |-> 0, panic |-> FALSE], 0)

\* bfind line 97: the block's write offset after the allocation
bfind_new_off_unaligned(blk_off, align, aligned_size) == blk_off + aligned_size

bfind_new_off(blk_off, align, aligned_size) ==
    round_up(blk_off, align) + aligned_size

\* bfind line 90: the buckets scanned are aligned_size..blksz
bfind_scans_any(i, aligned_size) == TRUE

bfind_scans(i, aligned_size) == i >= aligned_size

\* bfind lines 90-93: of the non-empty buckets scanned, the scan stops at the
\* one of least index
bfind_last(buckets) == CHOOSE r \in buckets : \A x \in buckets : x <= r

bfind_first(buckets) == CHOOSE r \in buckets : \A x \in buckets : r <= x

\* bfind: the first non-empty bucket i >= aligned_size; its last block is popped
bfind(bm, aligned_size, align) ==
    LET fit == {k \in 1..Len(bm.table) : bfind_scans(bm.table[k].idx, aligned_size)}
    IN  IF aligned_size > CODEXFS_BLKSIZ \/ fit = {}
        THEN [found |-> FALSE, bm |-> bm, addr |-> 0, from |-> 0]
        ELSE LET i   == bfind_first({bm.table[k].idx : k \in fit})
                 k   == CHOOSE x \in fit :
                            /\ bm.table[x].idx = i
                            /\ \A y \in fit : bm.table[y].idx = i => y <= x
                 id  == bm.table[k].id
                 a   == round_up(addr(bm, id), align)
                 new_off == bfind_new_off(bm.blk_off[id + 1], align, aligned_size)
                 popped  == table_remove(bm, k)
             IN  [found |-> TRUE,
                  bm    |-> push_block([popped EXCEPT !.blk_off[id + 1] = new_off], id),
                  addr  |-> a,
                  from  |-> addr(bm, id)]

\* balloc_contig line 113: what is left for new blocks after the old tail's room
contig_size_left_whole(aligned_size, aligned_off) == aligned_size

contig_size_left(aligned_size, aligned_off) ==
    aligned_size - (CODEXFS_BLKSIZ - aligned_off)

\* the while loop of balloc_contig: whole successor blocks until size_left is 0
RECURSIVE contig_extend(_, _)
contig_extend(bm, size_left) ==
    IF size_left <= 0 THEN bm
    ELSE LET id   == tail_blk_id(bm) + 1
             off  == Min(CODEXFS_BLKSIZ, size_left)
             grown == [bm EXCEPT !.blk_off = Append(@, off), !.tail = id]
         IN  contig_extend(push_block(grown, id), size_left - off)

balloc_contig(bm, aligned_size, align) ==
    LET aligned_off == round_up(bm.blk_off[bm.tail + 1], align)
    IN  IF aligned_off < CODEXFS_BLKSIZ
        THEN LET a   == round_up(addr(bm, bm.tail), align)
                 bad == ~(aligned_off + aligned_size > CODEXFS_BLKSIZ)
                 upd == update_block(bm, bm.tail, CODEXFS_BLKSIZ)
             IN  [bm   |-> contig_extend([upd EXCEPT !.panic = @ \/ bad],
                                         contig_size_left(aligned_size, aligned_off)),
                  addr |-> a,
                  from |-> addr(bm, bm.tail)]
        ELSE IF aligned_off = CODEXFS_BLKSIZ
        THEN [bm   |-> contig_extend(bm, aligned_size),
              addr |-> blk_id_to_addr(tail_blk_id(bm) + 1),
              from |-> blk_id_to_addr(tail_blk_id(bm) + 1)]
        ELSE [bm |-> [bm EXCEPT !.panic = TRUE], addr |-> 0, from |-> 0]

\* balloc: the region returned is [addr, addr + len); from is the write offset
\* the allocation started at (from < addr when alignment skipped bytes)
balloc(bm, size, btype) ==
    LET alignment    == get_align(btype)
        aligned_size == round_up(size, alignment)
        f == bfind(bm, aligned_size, alignment)
        c == balloc_contig(bm, aligned_size, alignment)
        r == IF f.found THEN [bm |-> f.bm, addr |-> f.addr, from |-> f.from] ELSE c
    IN  [bm    |-> [r.bm EXCEPT !.panic = @ \/ alignment > CODEXFS_BLKSIZ],
         addr  |-> r.addr,
         from  |-> r.from,
         len   |-> aligned_size,
         align |-> alignment,
         found |-> f.found]

-----------------------------------------------------------------------------
(* SpecAlloc: any sequence of balloc calls on a fresh BufferManager *)

IdleOthersAlloc ==
    /\ cmpr_mgr = Idle /\ inodes = Idle /\ sb = Idle /\ img = Idle
    /\ walk = Idle /\ mnt = Idle /\ rd = Idle /\ ro = Idle

\* request sizes: empty, one byte, an inode with a tail, a whole number of
\* inode slots short of a block, less than an inode slot short of a block,
\* exactly a block, more than a block
AllocSizes == {0, 1, 100, 3968, 4090, 4096, 5000}

InitAlloc ==
    /\ pc = "balloc"
    /\ bufmgr = BufferManagerNew
    /\ allocs = <<>>
    /\ IdleOthersAlloc

BallocCall(size, btype) ==
    /\ pc = "balloc"
    /\ Len(allocs) < MaxCalls
    /\ ~bufmgr.panic
    /\ LET r == balloc(bufmgr, size, btype)
       IN  /\ bufmgr' = r.bm
           /\ allocs' = Append(allocs, [addr |-> r.addr, len |-> r.len,
                                        from |-> r.from, align |-> r.align,
                                        btype |-> btype, size |-> size,
                                        found |-> r.found])
    /\ UNCHANGED <<pc, cmpr_mgr, inodes, sb, img, walk, mnt, rd, ro>>

NextAlloc == \E size \in AllocSizes, btype \in BufferTypes : BallocCall(size, btype)

SpecAlloc == InitAlloc /\ [][NextAlloc]_vars

\* end of the image: one past the tail block
ImageEnd == blk_id_to_addr(tail_blk_id(bufmgr) + 1)

RegionsDisjoint(a, b) ==
    a.len = 0 \/ b.len = 0 \/ a.addr + a.len <= b.addr \/ b.addr + b.len <= a.addr

\* C4: the regions balloc has returned are pairwise disjoint, end no later
\* than (tail block id + 1) * B, and each starts at a multiple of the
\* alignment of its kind.
C4_AllocSound ==
    pc = "balloc" =>
        /\ \A i, j \in 1..Len(allocs) : i < j => RegionsDisjoint(allocs[i], allocs[j])
        /\ \A i \in 1..Len(allocs) :
              /\ allocs[i].addr >= 0
              /\ allocs[i].addr + allocs[i].len <= ImageEnd
              /\ allocs[i].addr % get_align(allocs[i].btype) = 0
              /\ allocs[i].len = round_up(allocs[i].size, get_align(allocs[i].btype))

\* a run that reused a block (bfind), extended the image across blocks, and
\* served an aligned request after an unaligned one
C4_Witness ==
    /\ pc = "balloc"
    /\ Len(allocs) = 3
    /\ allocs[1].btype = "Meta" /\ allocs[1].size = 100
    /\ allocs[2].btype = "Data" /\ allocs[2].size = 5000 /\ ~allocs[2].found
    /\ allocs[3].btype = "Inode" /\ allocs[3].found /\ allocs[3].from < allocs[3].addr

\* C17: balloc is infallible: after any sequence of calls no assertion or
\* panic of the allocator has fired (alignment <= B, the assertion of
\* balloc_contig, its panic branch, the free-table index of push_block),
\* every block's write offset is within 0..B, and every size and address
\* handed out passed the alignment assertions of bfind and balloc_contig.
C17_BallocInfallible ==
    pc = "balloc" =>
        /\ ~bufmgr.panic
        /\ \A k \in 1..Len(bufmgr.blk_off) : bufmgr.blk_off[k] \in 0..CODEXFS_BLKSIZ
        /\ \A i \in 1..Len(allocs) :
              /\ allocs[i].len = round_up(allocs[i].len, allocs[i].align)
              /\ allocs[i].addr = round_up(allocs[i].addr, allocs[i].align)

\* a request that fills a reused block up to exactly B after an alignment
\* skip, followed by one that extends the image behind a full tail block
C17_Witness ==
    /\ pc = "balloc"
    /\ Len(allocs) = 3
    /\ allocs[1].btype = "Meta" /\ allocs[1].size = 100
    /\ allocs[2].btype = "Inode" /\ allocs[2].size = 3968 /\ allocs[2].found
    /\ allocs[2].from < allocs[2].addr
    /\ allocs[3].btype = "ZData" /\ allocs[3].size = 5000 /\ ~allocs[3].found
    /\ bufmgr.blk_off = <<CODEXFS_BLKSIZ, CODEXFS_BLKSIZ, CODEXFS_BLKSIZ>>

\* remaining room of block id
blk_room(bm, id) == CODEXFS_BLKSIZ - bm.blk_off[id + 1]

\* C19: a call of balloc whose rounded size s is at most B, made when some
\* block has room >= s, is placed in a block of minimal room among those
\* with room >= s, at that block's write offset rounded up to the
\* alignment; that block's offset becomes the aligned offset plus s, no
\* other block changes, and the tail block id is unchanged.
C19_BestFit ==
    [][(pc = "balloc" /\ Len(allocs') = Len(allocs) + 1) =>
        LET a    == allocs'[Len(allocs')]
            fits == {id \in 0..(Len(bufmgr.blk_off) - 1) : blk_room(bufmgr, id) >= a.len}
        IN  (a.len <= CODEXFS_BLKSIZ /\ fits # {}) =>
                \E id \in fits :
                    /\ \A j \in fits : blk_room(bufmgr, id) <= blk_room(bufmgr, j)
                    /\ a.addr = blk_id_to_addr(id)
                                  + round_up(bufmgr.blk_off[id + 1], a.align)
                    /\ bufmgr'.blk_off =
                          [bufmgr.blk_off EXCEPT
                              ![id + 1] = round_up(@, a.align) + a.len]
                    /\ tail_blk_id(bufmgr') = tail_blk_id(bufmgr)]_vars

\* two blocks have room for the third request, one byte: block 0 with 6
\* bytes left and the tail block with 3968; it is placed in block 0
C19_Witness ==
    /\ pc = "balloc"
    /\ Len(allocs) = 3
    /\ allocs[1].btype = "Meta" /\ allocs[1].size = 4090
    /\ allocs[2].btype = "Inode" /\ allocs[2].size = 100 /\ ~allocs[2].found
    /\ allocs[3].btype = "Meta" /\ allocs[3].size = 1 /\ allocs[3].found
    /\ allocs[3].addr = 4090
    /\ bufmgr.blk_off = <<4091, 128>>
    /\ tail_blk_id(bufmgr) = 1

\* the entries of the free table that hold block id
entries_of(bm, id) == {k \in 1..Len(bm.table) : bm.table[k].id = id}

\* C20: after any sequence of balloc calls the blocks are those of ids
\* 0..tail, the tail block having the largest id; every block has exactly
\* one entry in the free table, and the entry is in the bucket of index
\* B - blk_off of the block; the table holds nothing else.
C20_FreeTableInvariant ==
    pc = "balloc" =>
        /\ Len(bufmgr.blk_off) = tail_blk_id(bufmgr) + 1
        /\ {bufmgr.table[k].id : k \in 1..Len(bufmgr.table)} = 0..tail_blk_id(bufmgr)
        /\ \A id \in 0..tail_blk_id(bufmgr) :
              /\ Cardinality(entries_of(bufmgr, id)) = 1
              /\ \A k \in entries_of(bufmgr, id) :
                    bufmgr.table[k].idx = CODEXFS_BLKSIZ - bufmgr.blk_off[id + 1]
        /\ \A i \in {bufmgr.table[k].idx : k \in 1..Len(bufmgr.table)} :
              /\ i \in 0..CODEXFS_BLKSIZ
              /\ bucket(bufmgr, i) =
                    SelectSeq(bufmgr.table,
                              LAMBDA e : CODEXFS_BLKSIZ - bufmgr.blk_off[e.id + 1] = i)

\* three blocks in three buckets after a reuse by bfind, an extension that
\* filled the old tail through update_block, and two pushes of new blocks
C20_Witness ==
    /\ pc = "balloc"
    /\ Len(allocs) = 3
    /\ allocs[1].size = 3968 /\ allocs[1].btype = "Meta" /\ allocs[1].found
    /\ allocs[2].size = 5000 /\ allocs[2].btype = "Data" /\ ~allocs[2].found
    /\ allocs[3].size = 100 /\ allocs[3].btype = "Meta" /\ allocs[3].found
    /\ tail_blk_id(bufmgr) = 2
    /\ bufmgr.blk_off = <<CODEXFS_BLKSIZ, CODEXFS_BLKSIZ, 876>>
    /\ bufmgr.table = <<[idx |-> 0, id |-> 0], [idx |-> 0, id |-> 1],
                        [idx |-> CODEXFS_BLKSIZ - 876, id |-> 2]>>

RECURSIVE SumLen(_)
SumLen(q) == IF q = <<>> THEN 0 ELSE Head(q).hi - Head(q).lo + SumLen(Tail(q))

\* the regions returned so far, as intervals [lo, hi)
Regions == [i \in 1..Len(allocs) |-> [lo |-> allocs[i].addr,
                                      hi |-> allocs[i].addr + allocs[i].len]]

\* the bytes each allocation skipped to reach its alignment
AlignGaps == [i \in 1..Len(allocs) |-> [lo |-> allocs[i].from, hi |-> allocs[i].addr]]

\* the room each block still has: [blk_off, B) of the block
Remainders ==
    [id1 \in 1..Len(bufmgr.blk_off) |->
        [lo |-> blk_id_to_addr(id1 - 1) + bufmgr.blk_off[id1],
         hi |-> blk_id_to_addr(id1)]]

\* one past the last byte of any returned region
HighWater ==
    IF allocs = <<>> THEN 0
    ELSE LET ends == {allocs[i].addr + allocs[i].len : i \in 1..Len(allocs)}
         IN  CHOOSE m \in ends : \A e \in ends : e <= m

Tiles(q, end) ==
    /\ \A i \in 1..Len(q) : 0 <= q[i].lo /\ q[i].lo <= q[i].hi /\ q[i].hi <= end
    /\ \A i, j \in 1..Len(q) :
          i < j => (q[i].lo = q[i].hi \/ q[j].lo = q[j].hi
                    \/ q[i].hi <= q[j].lo \/ q[j].hi <= q[i].lo)
    /\ SumLen(q) = end

\* C5 as claimed: the regions returned so far cover every byte below the end
\* of the last region (they are disjoint, so they cover it exactly when
\* their lengths add up to it).
C5_RegionsCoverImage ==
    pc = "balloc" => Tiles(Regions, HighWater)

\* C5 as amended: the returned regions, the bytes skipped for alignment
\* before each region, and the room left in each block tile
\* [0, (tail block id + 1) * B) exactly.
C5_RegionsGapsRoomTile ==
    pc = "balloc" => Tiles(Regions \o AlignGaps \o Remainders, ImageEnd)

\* an alignment gap inside block 0, which kept room when the image was
\* extended past it by a block-aligned request
C5_Witness ==
    /\ pc = "balloc"
    /\ Len(allocs) = 3
    /\ \E i \in 1..3 : allocs[i].from < allocs[i].addr
    /\ \E i \in 1..3 : allocs[i].btype = "ZData" /\ ~allocs[i].found
    /\ bufmgr.tail >= 1
    /\ bufmgr.blk_off[1] < CODEXFS_BLKSIZ

-----------------------------------------------------------------------------
(* inode.rs: the compression pipeline (mkfs_dump_inode_file_data) and the  *)
(* compressed read at mount (fuse_read_inode_file).                        *)
(*                                                                         *)
(* File inodes are named by their position in the files list.  Byte k of   *)
(* file f is the pair <<f, k>>, so that a byte read back identifies the    *)
(* file and the position it came from.  The LZMA codec is modelled as      *)
(* lossless: a data block holds the encoding of a fragment, and decoding   *)
(* the block yields the fragment's bytes.  How many input bytes the        *)
(* encoder fits in one block (total_in) and how many bytes it emits        *)
(* (total_out) depend on the data: both are chosen freely at each block.   *)

\* number of files in the compress manager's list
MaxFiles == 2

\* file sizes: empty, one byte, several bytes
FileSizes == {0, 1, 3}

\* compressed sizes the encoder reports: a short block, a full block
TotalOuts == {CODEXFS_BLKSIZ - 1, CODEXFS_BLKSIZ}

\* Option<T>
None == <<>>

Some(x) == <<x>>

unwrap_or(opt, default) == IF opt = None THEN default ELSE opt[1]

\* the u16 and u32 casts (as _)
AsU16(x) == x % 65536

FileData(f, size) == [k \in 1..size |-> <<f, k - 1>>]

\* FileMeta of a freshly loaded file, with the size of InodeCommon
FileInodeNew(size) == [size |-> size, blk_id |-> None, extents |-> <<>>]

\* The bytes of a buffer or block, as consecutive runs: len zero bytes, or
\* the bytes [from, from + len) of the compressed stream encoded for block blk
ZeroRun(len) == [kind |-> "zero", blk |-> 0, from |-> 0, len |-> len]

LzmaRun(blk, from, len) == [kind |-> "lzma", blk |-> blk, from |-> from, len |-> len]

\* let mut output = [0; CODEXFS_BLKSIZ as usize], declared before the loop
OutputNew == <<ZeroRun(CODEXFS_BLKSIZ)>>

\* runs[n..]
RECURSIVE skip_bytes(_, _)
skip_bytes(runs, n) ==
    IF n = 0 \/ runs = <<>> THEN runs
    ELSE IF Head(runs).len <= n THEN skip_bytes(Tail(runs), n - Head(runs).len)
    ELSE <<IF Head(runs).kind = "zero" THEN ZeroRun(Head(runs).len - n)
           ELSE LzmaRun(Head(runs).blk, Head(runs).from + n, Head(runs).len - n)>>
             \o Tail(runs)

\* stream.process(input, &mut output, Finish): the encoder writes its
\* total_out bytes at the start of the buffer and leaves the rest as it was
stream_process(output, blk, total_out) ==
    <<LzmaRun(blk, 0, total_out)>> \o skip_bytes(output, total_out)

\* the manager, with the locals of the pipeline that live across its
\* iterations: the iterator `it` and the buffer `output`
CompressManagerNew ==
    [files |-> <<>>, origin_data |-> <<>>, off |-> 0, it |-> 0, output |-> OutputNew]

\* the file is appended with the offset at which its bytes start in
\* origin_data, and its bytes are appended to origin_data
push_file(cm, f, size) ==
    [cm EXCEPT !.files = Append(@, [off |-> Len(cm.origin_data), inode |-> f]),
               !.origin_data = @ \o FileData(f, size)]

RECURSIVE push_files(_, _, _)
push_files(cm, sizes, f) ==
    IF f > Len(sizes) THEN cm
    ELSE push_files(push_file(cm, f, sizes[f]), sizes, f + 1)

\* CodexFsExtent { off, frag_off } pushed with the arguments mixed up
push_extent_off_mixup(inode, off, len, frag_off) ==
    [inode |-> [inode EXCEPT !.extents = Append(@, [off |-> frag_off, frag_off |-> frag_off])],
     ret |-> IF off + len < inode.size THEN "Some"
             ELSE IF off + len = inode.size THEN "None" ELSE "panic"]

push_extent_frag_mixup(inode, off, len, frag_off) ==
    [inode |-> [inode EXCEPT !.extents = Append(@, [off |-> off, frag_off |-> len])],
     ret |-> IF off + len < inode.size THEN "Some"
             ELSE IF off + len = inode.size THEN "None" ELSE "panic"]

\* pushes the extent; Some(()) while the file has bytes left, None when the
\* extent reaches the end of the file, panic when it passes the end
push_extent(inode, off, len, frag_off) ==
    [inode |-> [inode EXCEPT !.extents = Append(@, [off |-> off, frag_off |-> frag_off])],
     ret |-> IF off + len < inode.size THEN "Some"
             ELSE IF off + len = inode.size THEN "None" ELSE "panic"]

\* the inner loop, lines 534-564: hands the total_in bytes of the block to
\* the files in list order.  st = [inodes, cm, panic]; cm.it is the
\* position of the iterator `it` (the current (off, inode) pair).
RECURSIVE assign_extents(_, _, _, _)
assign_extents(st, frag_off, total_in, blk) ==
    IF ~(frag_off < total_in) THEN st
    ELSE LET cur == st.cm.files[st.cm.it]
             f == cur.inode
             ino == [st.inodes[f] EXCEPT !.blk_id = IF @ = None THEN Some(blk) ELSE @]
             len == Min(total_in - frag_off, cur.off + ino.size - st.cm.off)
             r == push_extent(ino, st.cm.off - cur.off, len, frag_off)
             pushed == [st EXCEPT !.inodes[f] = r.inode]
         IN  CASE r.ret = "panic" -> [pushed EXCEPT !.panic = TRUE]
               [] r.ret = "None" /\ st.cm.it = Len(st.cm.files) ->
                      [pushed EXCEPT !.cm.off = @ + len]
               [] r.ret = "None" /\ st.cm.it < Len(st.cm.files) ->
                      assign_extents([pushed EXCEPT !.cm.it = @ + 1, !.cm.off = @ + len],
                                     frag_off + len, total_in, blk)
               [] OTHER ->
                      assign_extents([pushed EXCEPT !.cm.off = @ + len],
                                     frag_off + len, total_in, blk)

\* the on-disk inode of a file: blk_id.unwrap_or(0), blks = extents.len() as u16
CodexFsInodeFrom(inode) ==
    [size |-> inode.size,
     blk_id |-> unwrap_or(inode.blk_id, 0),
     blks |-> AsU16(Len(inode.extents))]

\* the file loaded at mount: block id 0 on disk reads back as None, and
\* blks extents are read from the inode's tail
fuse_load_inode_file(codexfs_inode, tail) ==
    [size |-> codexfs_inode.size,
     blk_id |-> IF codexfs_inode.blk_id # 0 THEN Some(codexfs_inode.blk_id) ELSE None,
     extents |-> SubSeq(tail, 1, Min(codexfs_inode.blks, Len(tail)))]

\* slice::partition_point on a slice partitioned by the predicate
partition_point(extents, off) ==
    Cardinality({k \in 1..Len(extents) : extents[k].off <= off})

ReadOk(buf) == [status |-> "ok", buf |-> buf]

ReadPanic == [status |-> "panic", buf |-> <<>>]

\* the loop of lines 784-817 from extent k (1-based) on
RECURSIVE read_extents(_, _, _, _, _)
read_extents(image, file, k, len_left, buf) ==
    IF k > Len(file.extents) THEN ReadOk(buf)
    ELSE IF file.blk_id = None THEN ReadPanic
    ELSE LET blk_id == file.blk_id[1] + (k - 1)
             e == file.extents[k]
         IN  IF blk_id \notin DOMAIN image THEN ReadPanic
             ELSE LET output == image[blk_id].data
                      total_out == Len(output)
                  IN  IF total_out < e.frag_off THEN ReadPanic
                      ELSE LET len_consumed == Min(len_left, total_out - e.frag_off)
                               buf1 == buf \o SubSeq(output, e.frag_off + 1,
                                                     e.frag_off + len_consumed)
                           IN  IF len_left - len_consumed = 0 THEN ReadOk(buf1)
                               ELSE read_extents(image, file, k + 1,
                                                 len_left - len_consumed, buf1)

\* the replies fuse_read_inode_file can give, for off <= size.  With no
\* extent at or before off, i - 1 underflows: a panic in a build with
\* overflow checks, an exhausted iterator and an empty reply without.
fuse_read_inode_file(image, file, off, len0) ==
    LET len == Min(len0, file.size - off)
        i == partition_point(file.extents, off)
    IN  IF i = 0 THEN {ReadPanic, ReadOk(<<>>)}
        ELSE {read_extents(image, file, i, len, <<>>)}

\* no request has been served yet
NoRequest == [status |-> "none"]

IdleOthersCmpr == walk = Idle /\ ro = Idle

SuperBlockNew == [end_data_blk_id |-> 0, end_data_blk_sz |-> 0]

\* the files list is any sequence of up to MaxFiles files, or empty; the allocator is
\* fresh, or the superblock has been allocated before (mkfs main)
InitCmpr ==
    /\ pc = "dump_file_data"
    /\ \E n \in 0..MaxFiles : \E sizes \in [1..n -> FileSizes] :
           /\ inodes = [f \in 1..n |-> FileInodeNew(sizes[f])]
           /\ cmpr_mgr = push_files(CompressManagerNew, sizes, 1)
    /\ \E sb_first \in BOOLEAN :
           bufmgr = IF sb_first
                    THEN balloc(BufferManagerNew, SizeOfCodexFsSuperBlock, "Meta").bm
                    ELSE BufferManagerNew
    /\ allocs = <<>>
    /\ sb = SuperBlockNew
    /\ img = <<>>
    /\ mnt = Idle
    /\ rd = NoRequest
    /\ IdleOthersCmpr

\* lines 502-510: the cursor is reset and the iterator takes the first file
DumpFileDataBegin ==
    /\ pc = "dump_file_data"
    /\ cmpr_mgr' = [cmpr_mgr EXCEPT !.off = 0, !.it = 1, !.output = OutputNew]
    /\ pc' = IF cmpr_mgr.files = <<>> THEN "panic"
             ELSE IF 0 < Len(cmpr_mgr.origin_data) THEN "compress" ELSE "dumped"
    /\ UNCHANGED <<bufmgr, allocs, inodes, sb, img, walk, mnt, rd, ro>>

\* lines 510-573: one block of the pipeline
CompressBlock(total_in, total_out) ==
    /\ pc = "compress"
    /\ cmpr_mgr.off < Len(cmpr_mgr.origin_data)
    /\ total_in \in 1..(Len(cmpr_mgr.origin_data) - cmpr_mgr.off)
    /\ LET r == balloc(bufmgr, CODEXFS_BLKSIZ, "Data")
           woff == r.addr
           blk == woff \div CODEXFS_BLKSIZ
           st == assign_extents([inodes |-> inodes, cm |-> cmpr_mgr, panic |-> FALSE],
                                0, total_in, blk)
           fragment == SubSeq(cmpr_mgr.origin_data, cmpr_mgr.off + 1,
                              cmpr_mgr.off + total_in)
       IN  /\ bufmgr' = r.bm
           /\ allocs' = Append(allocs, [addr |-> r.addr, len |-> r.len, from |-> r.from,
                                        align |-> r.align, btype |-> "Data",
                                        size |-> CODEXFS_BLKSIZ, found |-> r.found])
           /\ IF r.bm.panic \/ woff # round_down(woff, CODEXFS_BLKSIZ)
              THEN pc' = "panic" /\ UNCHANGED <<cmpr_mgr, inodes, sb, img>>
              ELSE /\ img' = (blk :> [data |-> fragment]) @@ img
                   /\ inodes' = st.inodes
                   /\ cmpr_mgr' = [st.cm EXCEPT
                                        !.output = stream_process(@, blk, total_out)]
                   /\ IF st.panic
                      THEN pc' = "panic" /\ UNCHANGED sb
                      ELSE /\ sb' = [sb EXCEPT !.end_data_blk_id = blk,
                                               !.end_data_blk_sz = total_out]
                           /\ pc' = IF st.cm.off < Len(st.cm.origin_data)
                                    THEN "compress" ELSE "dumped"
    /\ UNCHANGED <<walk, mnt, rd, ro>>

\* the image is mounted: each file's on-disk inode and extent tail, as
\* mkfs_dump_inode writes them, are loaded by fuse_load_inode_file
FuseLoadFiles ==
    /\ pc = "dumped"
    /\ mnt' = [f \in DOMAIN inodes |->
                   fuse_load_inode_file(CodexFsInodeFrom(inodes[f]), inodes[f].extents)]
    /\ pc' = "mounted"
    /\ UNCHANGED <<bufmgr, allocs, cmpr_mgr, inodes, sb, img, walk, rd, ro>>

\* a read request (f, off, len) with off + len <= size
FuseRead(f, off, len) ==
    /\ pc = "mounted"
    /\ off + len <= mnt[f].size
    /\ \E reply \in fuse_read_inode_file(img, mnt[f], off, len) :
           rd' = [f |-> f, off |-> off, len |-> len,
                  status |-> reply.status, buf |-> reply.buf]
    /\ UNCHANGED <<pc, bufmgr, allocs, cmpr_mgr, inodes, sb, img, walk, mnt, ro>>

NextCmpr ==
    \/ DumpFileDataBegin
    \/ /\ pc = "compress"
       /\ \E total_in \in 1..Len(cmpr_mgr.origin_data), total_out \in TotalOuts :
              CompressBlock(total_in, total_out)
    \/ FuseLoadFiles
    \/ /\ pc = "mounted"
       /\ \E f \in DOMAIN mnt : \E off \in 0..mnt[f].size : \E len \in 0..mnt[f].size :
              FuseRead(f, off, len)

SpecCmpr == InitCmpr /\ [][NextCmpr]_vars

-----------------------------------------------------------------------------
(* Claims about the compression pipeline and the compressed read *)

\* bytes [lo, hi) of file f
FileBytes(f, lo, hi) == [k \in 1..(hi - lo) |-> <<f, lo + k - 1>>]

\* where the coverage of extent i ends: at the next extent's off, or at size
ExtentEnd(inode, i) ==
    IF i < Len(inode.extents) THEN inode.extents[i + 1].off ELSE inode.size

C2_ExtentsCoverFile ==
    pc \in {"dumped", "mounted"} =>
        \A f \in DOMAIN inodes :
            LET inode == inodes[f] IN
            inode.size > 0 =>
                /\ Len(inode.extents) >= 1
                /\ inode.extents[1].off = 0
                /\ inode.blk_id # None
                /\ \A i \in 1..Len(inode.extents) :
                       LET e == inode.extents[i]
                           blk == inode.blk_id[1] + (i - 1)
                       IN  /\ e.off < ExtentEnd(inode, i)
                           /\ blk \in DOMAIN img
                           /\ SubSeq(img[blk].data, e.frag_off + 1,
                                     e.frag_off + (ExtentEnd(inode, i) - e.off))
                                  = FileBytes(f, e.off, ExtentEnd(inode, i))
                /\ pc = "mounted" => mnt[f].extents = inode.extents

\* a file in three extents, and another file that starts inside a fragment
C2_Witness ==
    /\ pc = "dumped"
    /\ \E f, g \in DOMAIN inodes :
           /\ Len(inodes[f].extents) = 3
           /\ inodes[g].size > 0
           /\ inodes[g].extents[1].frag_off > 0

\* C3: every extent the pipeline pushes has off = 0 or frag_off = 0: an
\* extent with frag_off > 0 is the first extent of its file, and an extent
\* with off > 0 starts at the beginning of its fragment.
C3_OffOrFragOffZero ==
    \A f \in DOMAIN inodes : \A i \in 1..Len(inodes[f].extents) :
        LET e == inodes[f].extents[i] IN
        /\ e.off = 0 \/ e.frag_off = 0
        /\ e.frag_off > 0 => i = 1
        /\ e.off > 0 => e.frag_off = 0

\* one file starts inside a fragment, and one continues into a next fragment
C3_Witness ==
    /\ pc \in {"compress", "dumped"}
    /\ \E f \in DOMAIN inodes : \E i \in 1..Len(inodes[f].extents) :
           inodes[f].extents[i].frag_off > 0
    /\ \E f \in DOMAIN inodes : \E i \in 1..Len(inodes[f].extents) :
           inodes[f].extents[i].off > 0

\* the bytes of the block written last: line 532 writes the whole buffer
LastBlockBytes == cmpr_mgr.output

FirstBlockInUse == bufmgr.blk_off[1] > 0

\* C21 (as claimed): with the superblock region allocated before the
\* pipeline starts, every iteration of the pipeline is given the whole block
\* that follows the tail block (never an earlier block, never a region that
\* starts inside a block) and goes on, so that the data blocks have
\* consecutive ids and extent i of a file is stored in block blk_id + i.
C21_DataBlocksConsecutive ==
    [][(pc = "compress" /\ FirstBlockInUse /\ Len(allocs') = Len(allocs) + 1) =>
        /\ allocs'[Len(allocs')].addr = blk_id_to_addr(tail_blk_id(bufmgr) + 1)
        /\ tail_blk_id(bufmgr') = tail_blk_id(bufmgr) + 1
        /\ pc' # "panic"
        /\ \A f \in DOMAIN inodes' : \A i \in 1..Len(inodes'[f].extents) :
              i > Len(inodes[f].extents) =>
                  /\ inodes'[f].blk_id # None
                  /\ inodes'[f].blk_id[1] + (i - 1) = tail_blk_id(bufmgr')]_vars

\* fuse_read_inode_file lines 798-802, with the block size in every case
comp_size_blksz(super, blk_id) == CODEXFS_BLKSIZ

\* fuse_read_inode_file lines 798-802: the compressed length the decoder is
\* given for block blk_id
comp_size(super, blk_id) ==
    IF super.end_data_blk_id = blk_id THEN super.end_data_blk_sz ELSE CODEXFS_BLKSIZ

\* the largest id of a data block written
LastDataBlock == CHOOSE b \in DOMAIN img : \A x \in DOMAIN img : x <= b

\* C22: when the pipeline has finished having written data, end_data_blk_id
\* is the largest data block id, which is the block written last, and
\* end_data_blk_sz is the total_out of the last iteration; the read takes
\* the compressed length of the end block from end_data_blk_sz and that of
\* every other block to be B.
C22_EndBlockRecorded ==
    (pc \in {"dumped", "mounted"} /\ DOMAIN img # {}) =>
        /\ sb.end_data_blk_id = LastDataBlock
        /\ LastBlockBytes[1] = LzmaRun(LastDataBlock, 0, sb.end_data_blk_sz)
        /\ \A blk \in DOMAIN img :
              comp_size(sb, blk) = IF blk = LastDataBlock
                                   THEN LastBlockBytes[1].len ELSE CODEXFS_BLKSIZ

\* three data blocks, the last iteration one byte short of a block, and a
\* file read back from them at the mount
C22_Witness ==
    /\ pc = "mounted" /\ rd.status = "ok"
    /\ DOMAIN img = 0..2
    /\ sb = [end_data_blk_id |-> 2, end_data_blk_sz |-> CODEXFS_BLKSIZ - 1]
    /\ comp_size(sb, 1) = CODEXFS_BLKSIZ

-----------------------------------------------------------------------------
(* inode.rs: the tree walk (mkfs_load_inode, mkfs_load_inode_dir), the     *)
(* inode allocation (mkfs_balloc_inode) and the inode writer               *)
(* (mkfs_dump_inode).                                                      *)
(*                                                                         *)
(* The source tree is a sequence of nodes; node 1 is the root directory,   *)
(* node k > 1 lies in the directory parent[k] < k.  Each node has the      *)
(* inode number the source filesystem reports for it: two paths of one     *)
(* hard-linked file or symlink report the same number.  An in-memory       *)
(* inode is named by its position in `inodes` (the order of creation),     *)
(* which stands for the Rc pointer.  A file name is named by the node.     *)

\* number of nodes of the source tree
MaxNodes == 4

FileTypes == {"Dir", "File", "Symlink"}

SrcNode(parent, file_type, ino) == [parent |-> parent, file_type |-> file_type, ino |-> ino]

\* the trees obtained from tree t by adding node n: in any directory, of
\* any type, with an inode number of its own or, for a file or symlink,
\* as one more link to an earlier node of the same type
ExtendTree(t, n) ==
    {Append(t, SrcNode(p, ft, ino)) :
        <<p, ft, ino>> \in
            {x \in (1..(n - 1)) \X FileTypes \X (1..n) :
                /\ t[x[1]].file_type = "Dir"
                /\ \/ x[3] = n
                   \/ /\ x[2] # "Dir"
                      /\ \E j \in 1..(n - 1) :
                             t[j].ino = x[3] /\ t[j].file_type = x[2]}}

RECURSIVE SourceTrees(_)
SourceTrees(n) ==
    IF n = 1 THEN {<<SrcNode(0, "Dir", 1)>>}
    ELSE UNION {ExtendTree(t, n) : t \in SourceTrees(n - 1)}

\* fs::read_dir(path): the entries of a directory
read_dir(tree, node) == {c \in 1..Len(tree) : tree[c].parent = node}

\* metadata.len() of a file or symlink, file_name().len() of an entry
SrcLen(node) == node

\* Inode::new: nlink 2 for a directory and 0 otherwise, ino from the
\* superblock's counter, nid 0
InodeNew(tree, node, ino) ==
    [path |-> node,
     file_type |-> tree[node].file_type,
     size |-> SrcLen(node),
     nlink |-> IF tree[node].file_type = "Dir" THEN 2 ELSE 0,
     ino |-> ino,
     nid |-> 0,
     parent |-> None,
     dentries |-> <<>>,
     blk_id |-> None,
     extents |-> <<>>]

\* nlink is u16; += 1 without overflow checks
inc_nlink(inode) == [inode EXCEPT !.nlink = AsU16(@ + 1)]

add_dentry(inode, dentry) == [inode EXCEPT !.dentries = Append(@, dentry)]

\* Dentry::new: name and type of the path, and the inode it resolved to
DentryNew(tree, node, h) ==
    [file_name |-> node, name_len |-> SrcLen(node),
     file_type |-> tree[node].file_type, inode |-> h]

\* the inode table, keyed by the source inode number
get_inode_miss(table, ino) == None

get_inode(table, ino) == IF ino \in DOMAIN table THEN Some(table[ino]) ELSE None

insert_inode(table, ino, h) == (ino :> h) @@ table

is_dir_any(file_type) == TRUE

\* CodexFsFileType::is_dir
is_dir(file_type) == file_type = "Dir"

parent_always_self(parent, self) == self

\* parent.unwrap_or_else(|| Rc::downgrade(&inode))
parent_or_self(parent, self) == unwrap_or(parent, self)

\* the sum of file_name().len() over dentries[lo..hi]
RECURSIVE SumNameLens(_, _, _)
SumNameLens(dentries, lo, hi) ==
    IF lo > hi THEN 0
    ELSE IF lo = hi THEN dentries[lo].name_len
    ELSE SumNameLens(dentries, lo, (lo + hi) \div 2)
             + SumNameLens(dentries, (lo + hi) \div 2 + 1, hi)

\* 1 + 2 for "." and "..", plus the length of every name
namesize(dentries) == 1 + 2 + SumNameLens(dentries, 1, Len(dentries))

\* (ndir * size_of::<CodexFsDirent>() + namesize) as u32; a directory of
\* the model is far below 2^32 bytes, so the cast changes nothing
dir_size(dentries) ==
    (Len(dentries) + 2) * SizeOfCodexFsDirent + namesize(dentries)

\* mkfs_load_inode_dir returns to the directory above: lines 388-394
DirAddChild(inos, frame, tree, node, h) ==
    LET dentry == DentryNew(tree, node, h)
        counted == IF is_dir(dentry.file_type)
                   THEN [inos EXCEPT ![frame.dir] = inc_nlink(@)] ELSE inos
    IN  [counted EXCEPT ![frame.dir] = add_dentry(@, dentry)]

Top(stack) == stack[Len(stack)]

Pop(stack) == SubSeq(stack, 1, Len(stack) - 1)

\* a call of mkfs_load_inode_dir in progress: its path, its inode, the
\* entries read_dir has not yielded yet, and the parent it was called with
Frame(node, h, todo, parent) == [path |-> node, dir |-> h, todo |-> todo, parent |-> parent]

InitWalk ==
    /\ pc = "load_inode"
    /\ \E n \in 1..MaxNodes : \E tree \in SourceTrees(n) :
           walk = [tree |-> tree, stack |-> <<>>, table |-> <<>>, vec |-> <<>>,
                   resolved |-> <<>>]
    /\ inodes = <<>>
    /\ cmpr_mgr = CompressManagerNew
    /\ sb = [ino |-> 0, root |-> None]
    /\ bufmgr = BufferManagerNew
    /\ allocs = <<>>
    /\ img = <<>>
    /\ mnt = Idle
    /\ rd = NoRequest
    /\ ro = Idle

\* mkfs_load_inode(path, parent) on a directory: mkfs_load_inode_dir makes
\* the inode and starts reading the entries (lines 379-384).  The root is
\* loaded with parent None, a child with the directory being read.
LoadDirBegin(node) ==
    /\ pc = "load_inode"
    /\ walk.tree[node].file_type = "Dir"
    /\ \/ node = 1 /\ walk.stack = <<>> /\ inodes = <<>>
       \/ walk.stack # <<>> /\ node \in Top(walk.stack).todo
    /\ LET h == Len(inodes) + 1
           parent == IF walk.stack = <<>> THEN None ELSE Some(Top(walk.stack).dir)
           below == IF walk.stack = <<>> THEN <<>>
                    ELSE Append(Pop(walk.stack),
                                [Top(walk.stack) EXCEPT !.todo = @ \ {node}])
       IN  /\ inodes' = Append(inodes, InodeNew(walk.tree, node, sb.ino))
           /\ sb' = [sb EXCEPT !.ino = @ + 1]
           /\ walk' = [walk EXCEPT
                           !.stack = Append(below, Frame(node, h, read_dir(walk.tree, node),
                                                         parent))]
    /\ UNCHANGED <<pc, bufmgr, allocs, cmpr_mgr, img, mnt, rd, ro>>

\* mkfs_load_inode on a file or symlink met in the directory being read
\* (lines 404-416, 438-446), then the dentry is added to the directory
LoadLeaf(node) ==
    /\ pc = "load_inode"
    /\ walk.stack # <<>>
    /\ node \in Top(walk.stack).todo
    /\ walk.tree[node].file_type # "Dir"
    /\ LET ino == walk.tree[node].ino
           found == get_inode(walk.table, ino)
           h == IF found = None THEN Len(inodes) + 1 ELSE found[1]
           made == IF found = None
                   THEN Append(inodes, InodeNew(walk.tree, node, sb.ino)) ELSE inodes
           linked == [made EXCEPT ![h] = inc_nlink(@)]
           is_none == get_inode(walk.table, ino) = None
           top == Top(walk.stack)
       IN  /\ sb' = IF found = None THEN [sb EXCEPT !.ino = @ + 1] ELSE sb
           /\ cmpr_mgr' = IF is_none /\ linked[h].file_type = "File"
                          THEN push_file(cmpr_mgr, h, linked[h].size) ELSE cmpr_mgr
           /\ inodes' = DirAddChild(linked, top, walk.tree, node, h)
           /\ walk' = [walk EXCEPT
                           !.vec = IF is_none THEN Append(@, h) ELSE @,
                           !.table = IF is_none THEN insert_inode(@, ino, h) ELSE @,
                           !.resolved = (node :> h) @@ @,
                           !.stack = Append(Pop(walk.stack),
                                            [top EXCEPT !.todo = @ \ {node}])]
    /\ UNCHANGED <<pc, bufmgr, allocs, img, mnt, rd, ro>>

\* read_dir is exhausted: mkfs_load_inode_dir returns, mkfs_load_inode sets
\* the parent and the size and registers the directory (lines 417-446);
\* the directory above adds the dentry, or main sets the root
LoadDirEnd ==
    /\ pc = "load_inode"
    /\ walk.stack # <<>>
    /\ Top(walk.stack).todo = {}
    /\ LET top == Top(walk.stack)
           h == top.dir
           ino == walk.tree[top.path].ino
           closed == [inodes EXCEPT
                          ![h].parent = Some(parent_or_self(top.parent, h)),
                          ![h].size = dir_size(inodes[h].dentries)]
           is_none == get_inode(walk.table, ino) = None
           rest == Pop(walk.stack)
       IN  /\ inodes' = IF rest = <<>> THEN closed
                        ELSE DirAddChild(closed, Top(rest), walk.tree, top.path, h)
           /\ walk' = [walk EXCEPT
                           !.vec = IF is_none THEN Append(@, h) ELSE @,
                           !.table = IF is_none THEN insert_inode(@, ino, h) ELSE @,
                           !.resolved = (top.path :> h) @@ @,
                           !.stack = rest]
           /\ sb' = IF rest = <<>> THEN [sb EXCEPT !.root = Some(h)] ELSE sb
           /\ pc' = IF rest = <<>> THEN "balloc_super_block" ELSE pc
    /\ UNCHANGED <<bufmgr, allocs, cmpr_mgr, img, mnt, rd, ro>>

-----------------------------------------------------------------------------
(* lib.rs, sb.rs, inode.rs: inode allocation and the inode writer *)

\* addr >> CODEXFS_ISLOT_BITS
codexfs_nid(pos) == pos \div SizeOfCodexFsInode

\* size_of::<CodexFsExtent>(): two u32
SizeOfCodexFsExtent == 8

\* the region mkfs_balloc_inode asks for: the inode and its tail
inode_alloc_size(inode) ==
    IF inode.file_type = "File"
    THEN SizeOfCodexFsInode + Len(inode.extents) * SizeOfCodexFsExtent
    ELSE SizeOfCodexFsInode + inode.size

\* the loop of mkfs_balloc_inode over the inode vector from position k on;
\* st = [bm, inodes, log]
RECURSIVE balloc_inodes(_, _, _)
balloc_inodes(st, vec, k) ==
    IF k > Len(vec) THEN st
    ELSE LET h == vec[k]
             r == balloc(st.bm, inode_alloc_size(st.inodes[h]), "Inode")
         IN  balloc_inodes([bm |-> r.bm,
                            inodes |-> [st.inodes EXCEPT ![h].nid = codexfs_nid(r.addr)],
                            log |-> Append(st.log,
                                [addr |-> r.addr, len |-> r.len, from |-> r.from,
                                 align |-> r.align, btype |-> "Inode",
                                 size |-> inode_alloc_size(st.inodes[h]),
                                 found |-> r.found])],
                           vec, k + 1)

\* lengths of the names written for a directory: ".", "..", the children
NameLens(dentries) == <<1, 2>> \o [k \in 1..Len(dentries) |-> dentries[k].name_len]

\* <<base + lens[lo], base + lens[lo] + lens[lo + 1], ...>> up to hi: the
\* values a counter takes when lens[lo..hi] are added to it one by one
RECURSIVE PrefixSums(_, _, _, _)
PrefixSums(lens, lo, hi, base) ==
    IF lo > hi THEN <<>>
    ELSE IF lo = hi THEN <<base + lens[lo]>>
    ELSE LET mid == (lo + hi) \div 2
             left == PrefixSums(lens, lo, mid, base)
         IN  left \o PrefixSums(lens, mid + 1, hi, left[Len(left)])

\* the bytes of a name: of ".", of "..", of the file name of a source node
Dot == <<".">>

DotDot == <<"..">>

Name(file_name) == <<"name", file_name>>

\* (size_of::<CodexFsDirent>() * (dentries.len() + 2)) as u16
dir_first_nameoff(ndentries) == AsU16(SizeOfCodexFsDirent * (ndentries + 2))

\* guard.parent().borrow().common.nid
dotdot_nid(inos, dir) == inos[dir.parent[1]].nid

\* the tail mkfs_dump_inode writes for directory dir (lines 593-637):
\*   dirents  : the dirents in order, nameoff as the u16 the code computes
\*              when += wraps;
\*   names    : the names in order; name k is written at names_at[k],
\*              counted from the start of the tail;
\*   overflow : some nameoff += exceeds u16 (a panic with overflow checks);
\*   name_off : where the name region ends.
dump_dir(inos, dir) ==
    LET d == Len(dir.dentries)
        lens == NameLens(dir.dentries)
        first == dir_first_nameoff(d)
        after == PrefixSums(lens, 1, d + 2, first)
        before(k) == IF k = 1 THEN first ELSE after[k - 1]
        names_start == SizeOfCodexFsDirent * (d + 2)
    IN  [dirents |-> [k \in 1..(d + 2) |->
                         [nid |-> IF k = 1 THEN dir.nid
                                  ELSE IF k = 2 THEN dotdot_nid(inos, dir)
                                  ELSE inos[dir.dentries[k - 2].inode].nid,
                          nameoff |-> AsU16(before(k)),
                          file_type |-> IF k <= 2 THEN "Dir"
                                        ELSE dir.dentries[k - 2].file_type]],
         names |-> [k \in 1..(d + 2) |->
                       IF k = 1 THEN Dot ELSE IF k = 2 THEN DotDot
                       ELSE Name(dir.dentries[k - 2].file_name)],
         names_at |-> [k \in 1..(d + 2) |-> names_start + (before(k) - first)],
         lens |-> lens,
         overflow |-> \E k \in 1..(d + 2) : AsU16(before(k)) + lens[k] > 65535,
         name_off |-> names_start + (after[d + 2] - first)]

\* the on-disk inode: ino is the nid, blk_id and blks as for a file
CodexFsInodeOf(inode) ==
    [file_type |-> inode.file_type,
     nlink |-> inode.nlink,
     size |-> inode.size,
     ino |-> inode.nid,
     blk_id |-> IF inode.file_type = "File" THEN unwrap_or(inode.blk_id, 0) ELSE 0,
     blks |-> IF inode.file_type = "File" THEN AsU16(Len(inode.extents)) ELSE 0]

\* what mkfs_dump_inode writes at the slot of one inode and after it
dump_inode(inos, inode) ==
    [codexfs_inode |-> CodexFsInodeOf(inode),
     tail |-> CASE inode.file_type = "Dir" -> dump_dir(inos, inode)
                [] inode.file_type = "File" -> [extents |-> inode.extents]
                [] OTHER -> [link |-> inode.path]]

\* the loop of mkfs_dump_inode stops at the first directory whose nameoff
\* overflows (with overflow checks) or whose size assertion fails
dump_panics(inos, vec, overflow_checks) ==
    \E k \in 1..Len(vec) :
        /\ inos[vec[k]].file_type = "Dir"
        /\ LET t == dump_dir(inos, inos[vec[k]])
           IN  \/ overflow_checks /\ t.overflow
               \/ inos[vec[k]].size # t.name_off

\* what the image holds at the slot nid: the last write there
ImgAt(image, nid) ==
    image[CHOOSE k \in DOMAIN image :
              image[k].nid = nid /\ \A j \in DOMAIN image : image[j].nid = nid => j <= k].at

\* sb.rs mkfs_balloc_super_block
MkfsBallocSuperBlock ==
    /\ pc = "balloc_super_block"
    /\ LET r == balloc(bufmgr, SizeOfCodexFsSuperBlock, "Meta")
       IN  /\ bufmgr' = r.bm
           /\ allocs' = Append(allocs, [addr |-> r.addr, len |-> r.len, from |-> r.from,
                                        align |-> r.align, btype |-> "Meta",
                                        size |-> SizeOfCodexFsSuperBlock,
                                        found |-> r.found])
           /\ pc' = IF r.addr = 0 THEN "balloc_inode" ELSE "panic"
    /\ UNCHANGED <<cmpr_mgr, inodes, sb, img, walk, mnt, rd, ro>>

\* inode.rs mkfs_balloc_inode
MkfsBallocInode ==
    /\ pc = "balloc_inode"
    /\ LET st == balloc_inodes([bm |-> bufmgr, inodes |-> inodes, log |-> allocs],
                               walk.vec, 1)
       IN  /\ bufmgr' = st.bm
           /\ inodes' = st.inodes
           /\ allocs' = st.log
    /\ pc' = "dump_inode"
    /\ UNCHANGED <<cmpr_mgr, sb, img, walk, mnt, rd, ro>>

\* inode.rs mkfs_dump_inode: every inode of the vector is written at its
\* nid; the image is the sequence of these writes
MkfsDumpInode(overflow_checks) ==
    /\ pc = "dump_inode"
    /\ IF dump_panics(inodes, walk.vec, overflow_checks)
       THEN pc' = "panic" /\ UNCHANGED img
       ELSE /\ img' = [k \in 1..Len(walk.vec) |->
                          [nid |-> inodes[walk.vec[k]].nid,
                           at |-> dump_inode(inodes, inodes[walk.vec[k]])]]
            /\ pc' = "dumped_inode"
    /\ UNCHANGED <<bufmgr, allocs, cmpr_mgr, inodes, sb, walk, mnt, rd, ro>>

Next ==
    \/ \E node \in 1..MaxNodes : node \in DOMAIN walk.tree /\ LoadDirBegin(node)
    \/ \E node \in 1..MaxNodes : node \in DOMAIN walk.tree /\ LoadLeaf(node)
    \/ LoadDirEnd
    \/ MkfsBallocSuperBlock
    \/ MkfsBallocInode
    \/ \E overflow_checks \in BOOLEAN : MkfsDumpInode(overflow_checks)

Spec == InitWalk /\ [][Next]_vars

-----------------------------------------------------------------------------
(* Claims about the tree walk *)

\* the paths the walk has resolved so far
Visited == DOMAIN walk.resolved

Occurrences(seq, x) == Cardinality({k \in 1..Len(seq) : seq[k] = x})

\* the in-memory inode of the directory that contains node (of the root: itself)
ContainingDir(node) ==
    IF node = 1 THEN walk.resolved[1] ELSE walk.resolved[walk.tree[node].parent]

\* C6: at every point of the walk, the file and symlink paths visited so far
\* that share a source inode number resolve to one in-memory inode, which is
\* once in the inode vector, once in the compress manager's files if it is
\* a regular file (never if a symlink), and whose nlink is the number of
\* those paths.
C6_HardLinksShareInode ==
    \A a \in Visited :
        walk.tree[a].file_type # "Dir" =>
            LET h == walk.resolved[a]
                paths == {b \in Visited : walk.tree[b].ino = walk.tree[a].ino}
            IN  /\ \A b \in paths : walk.resolved[b] = h
                /\ Occurrences(walk.vec, h) = 1
                /\ Cardinality({k \in 1..Len(cmpr_mgr.files) : cmpr_mgr.files[k].inode = h})
                       = IF inodes[h].file_type = "File" THEN 1 ELSE 0
                /\ inodes[h].nlink = Cardinality(paths)

\* a file reached by two paths in two directories, after the walk
C6_Witness ==
    /\ pc = "balloc_super_block"
    /\ \E a, b \in Visited :
           /\ a # b
           /\ walk.tree[a].file_type = "File"
           /\ walk.tree[a].ino = walk.tree[b].ino
           /\ walk.tree[a].parent # walk.tree[b].parent
           /\ inodes[walk.resolved[a]].nlink = 2

\* C7: after the walk, the nlink of every directory is 2 plus the number of
\* its entries that are directories.
C7_DirNlink ==
    pc # "load_inode" =>
        \A h \in 1..Len(inodes) :
            inodes[h].file_type = "Dir" =>
                inodes[h].nlink =
                    2 + Cardinality({c \in read_dir(walk.tree, inodes[h].path) :
                                         walk.tree[c].file_type = "Dir"})

\* a directory with a subdirectory, a file and a symlink
C7_Witness ==
    /\ pc = "balloc_super_block"
    /\ \E h \in 1..Len(inodes) :
           /\ inodes[h].nlink = 3
           /\ \A ft \in FileTypes :
                  \E c \in read_dir(walk.tree, inodes[h].path) : walk.tree[c].file_type = ft

\* C8: after the walk, the parent of the root directory is the root and the
\* parent of any other directory is the directory that contains it; once
\* the inodes are written, the second dirent of every directory is ".." and
\* carries the nid of that parent.
C8_ParentAndDotDot ==
    pc # "load_inode" =>
        \A h \in 1..Len(inodes) :
            inodes[h].file_type = "Dir" =>
                /\ inodes[h].parent = Some(ContainingDir(inodes[h].path))
                /\ inodes[h].path = 1 => inodes[h].parent = Some(h)
                /\ pc = "dumped_inode" =>
                       /\ ImgAt(img, inodes[h].nid).tail.names[2] = DotDot
                       /\ ImgAt(img, inodes[h].nid).tail.dirents[2].nid
                              = inodes[ContainingDir(inodes[h].path)].nid

\* a directory inside a directory inside the root, written to the image
C8_Witness ==
    /\ pc = "dumped_inode"
    /\ \E h \in 1..Len(inodes) :
           /\ inodes[h].file_type = "Dir"
           /\ inodes[h].path # 1
           /\ walk.tree[inodes[h].path].parent # 1
           /\ ImgAt(img, inodes[h].nid).tail.dirents[2].nid # inodes[h].nid
           /\ ImgAt(img, inodes[h].nid).tail.dirents[2].nid # inodes[walk.resolved[1]].nid

-----------------------------------------------------------------------------
(* compress.rs: the reorder step (CompressManager::optimize).              *)
(*                                                                         *)
(* Files are numbered 1..n in list order (the code counts from 0).  The    *)
(* reorder step is run twice on the same list and matrix, as two runs of   *)
(* the program would.  `unvisited` is a HashSet with the default hasher:   *)
(* its iteration order is unspecified and differs from one run to the      *)
(* next, and min_by_key returns the first minimum in iteration order, so   *)
(* among the nodes at minimal distance the one returned is any of them.    *)

\* number of files in the list that is reordered
MaxReorderFiles == 4

\* distance of two files when one of them has no TLSH digest
DEFAULT_DIFF == 1000

\* distances: two similar files, two files without digest
DiffValues == {1, DEFAULT_DIFF}

\* the matrices construct_diff_map builds: a distance for every pair i < j,
\* stored at [i][j] and [j][i], and zero on the diagonal
DiffMats(n) ==
    {[i \in 1..n |-> [j \in 1..n |->
          IF i = j THEN 0 ELSE IF i < j THEN diff[<<i, j>>] ELSE diff[<<j, i>>]]] :
        diff \in [{p \in (1..n) \X (1..n) : p[1] < p[2]} -> DiffValues]}

RECURSIVE SumSeq(_)
SumSeq(s) == IF s = <<>> THEN 0 ELSE Head(s) + SumSeq(Tail(s))

\* the first row of minimal sum; None stands for the unwrap of an empty min
select_initial_node(diff_mat) ==
    IF diff_mat = <<>> THEN None
    ELSE Some(CHOOSE i \in 1..Len(diff_mat) :
                  \A j \in 1..Len(diff_mat) :
                      \/ SumSeq(diff_mat[i]) < SumSeq(diff_mat[j])
                      \/ SumSeq(diff_mat[i]) = SumSeq(diff_mat[j]) /\ i <= j)

\* min_by_key returns an unvisited node whatever its distance
min_by_key_any(unvisited, diff_mat, from) == unvisited

\* the nodes unvisited.iter().min_by_key(|node| diff_mat[from][node]) can return
min_by_key(unvisited, diff_mat, from) ==
    {node \in unvisited : \A other \in unvisited : diff_mat[from][node] <= diff_mat[from][other]}

calculate_total_cost(path, diff_mat) ==
    SumSeq([k \in 1..(Len(path) - 1) |-> diff_mat[path[k]][path[k + 1]]])

Reverse(s) == [k \in 1..Len(s) |-> s[Len(s) + 1 - k]]

\* the path with path[i+1 .. j-1] reversed (i, j counted from 0 as in the code)
two_opt_swap(path, i, j) ==
    SubSeq(path, 1, i + 1) \o Reverse(SubSeq(path, i + 2, j)) \o SubSeq(path, j + 1, Len(path))

\* a move is accepted also when it leaves the cost as it is
two_opt_improves_or_equal(path, diff_mat, i, j) ==
    calculate_total_cost(two_opt_swap(path, i, j), diff_mat)
        <= calculate_total_cost(path, diff_mat)

\* (i, j) is a move the scan accepts: new < original and new_cost < min_cost
two_opt_improves(path, diff_mat, i, j) ==
    LET a == path[i + 1]
        b == path[i + 2]
        c == path[j]
        d == path[j + 1]
    IN  /\ diff_mat[a][c] + diff_mat[b][d] < diff_mat[a][b] + diff_mat[c][d]
        /\ calculate_total_cost(two_opt_swap(path, i, j), diff_mat)
               < calculate_total_cost(path, diff_mat)

\* the scan takes the first accepted move in the order of the two loops
\* and starts again; it stops when a whole scan accepts none
RECURSIVE two_opt_optimize(_, _)
two_opt_optimize(path, diff_mat) ==
    LET n == Len(path)
        moves == {m \in (0..(n - 2)) \X (0..(n - 1)) :
                     m[2] >= m[1] + 2 /\ two_opt_improves(path, diff_mat, m[1], m[2])}
    IN  IF moves = {} THEN path
        ELSE LET first == CHOOSE m \in moves :
                              \A o \in moves : m[1] < o[1] \/ (m[1] = o[1] /\ m[2] <= o[2])
             IN  two_opt_optimize(two_opt_swap(path, first[1], first[2]), diff_mat)

RunNew == [path |-> <<>>, unvisited |-> {}, front |-> 0, back |-> 0, files |-> <<>>]

InitReorder ==
    /\ pc = "optimize"
    /\ \E n \in 0..MaxReorderFiles : \E m \in DiffMats(n) :
           ro = [diff_mat |-> m, run |-> 1, runs |-> <<RunNew, RunNew>>]
    /\ bufmgr = Idle /\ allocs = Idle /\ cmpr_mgr = Idle /\ inodes = Idle
    /\ sb = Idle /\ img = Idle /\ walk = Idle /\ mnt = Idle /\ rd = Idle

UnchangedByReorder == UNCHANGED <<bufmgr, allocs, cmpr_mgr, inodes, sb, img, walk, mnt, rd>>

\* nearest_neighbor_dual_end, lines 151-158
NearestBegin ==
    /\ pc = "optimize"
    /\ LET start == select_initial_node(ro.diff_mat)
       IN  IF start = None
           THEN pc' = "panic" /\ UNCHANGED ro
           ELSE /\ ro' = [ro EXCEPT !.runs[ro.run] =
                              [path |-> <<start[1]>>,
                               unvisited |-> (1..Len(ro.diff_mat)) \ {start[1]},
                               front |-> start[1], back |-> start[1], files |-> <<>>]]
                /\ pc' = "nearest"
    /\ UnchangedByReorder

\* one iteration of the while loop, lines 160-190
NearestStep(nf, nb) ==
    /\ pc = "nearest"
    /\ LET r == ro.runs[ro.run] IN
       /\ r.unvisited # {}
       /\ nf \in min_by_key(r.unvisited, ro.diff_mat, r.front)
       /\ nb \in min_by_key(r.unvisited, ro.diff_mat, r.back)
       /\ LET is_front == ro.diff_mat[r.front][nf] <= ro.diff_mat[r.back][nb]
              candidate == IF is_front THEN nf ELSE nb
          IN  ro' = [ro EXCEPT !.runs[ro.run] =
                        [r EXCEPT !.path = IF is_front THEN <<candidate>> \o @
                                           ELSE Append(@, candidate),
                                  !.front = IF is_front THEN candidate ELSE @,
                                  !.back = IF is_front THEN @ ELSE candidate,
                                  !.unvisited = @ \ {candidate}]]
    /\ UNCHANGED pc
    /\ UnchangedByReorder

\* the loop ends; optimize runs two_opt_optimize and permutes the files
OptimizeEnd ==
    /\ pc = "nearest"
    /\ ro.runs[ro.run].unvisited = {}
    /\ ro' = [ro EXCEPT !.runs[ro.run].files =
                            two_opt_optimize(ro.runs[ro.run].path, ro.diff_mat),
                        !.run = IF ro.run = 1 THEN 2 ELSE @]
    /\ pc' = IF ro.run = 1 THEN "optimize" ELSE "reordered"
    /\ UnchangedByReorder

NextReorder ==
    \/ NearestBegin
    \/ /\ pc = "nearest"
       /\ \E nf, nb \in 1..Len(ro.diff_mat) : NearestStep(nf, nb)
    \/ OptimizeEnd

SpecReorder == InitReorder /\ [][NextReorder]_vars

\* C9 (as claimed): two runs of the reorder step on the same file list and
\* the same distance matrix produce the same permutation, ties included.
C9_ReorderDeterministic ==
    pc = "reordered" => ro.runs[1].files = ro.runs[2].files

\* the distance from a node to the nearest node of a set
nearest_distance(diff_mat, from, nodes) ==
    CHOOSE d \in {diff_mat[from][node] : node \in nodes} :
        \A node \in nodes : d <= diff_mat[from][node]

\* the nodes not on a path
NotOn(path, diff_mat) == (1..Len(diff_mat)) \ {path[k] : k \in 1..Len(path)}

\* C26: nearest_neighbor_dual_end returns a permutation of the nodes; the
\* first node placed is a row of minimal row sum; every later step adds an
\* unvisited node nearest to the front or to the back of the path, at the
\* end whose nearest unvisited node is closer, at the front when the two
\* distances are equal.
C26_DualEndConstruction ==
    [][LET D == ro.diff_mat
           path == ro.runs[ro.run].path
           next == ro'.runs[ro.run].path
           rest == NotOn(path, D)
       IN  /\ pc = "optimize" /\ pc' = "nearest" =>
                 /\ Len(next) = 1
                 /\ \A j \in 1..Len(D) : SumSeq(D[next[1]]) <= SumSeq(D[j])
           /\ pc = "nearest" /\ pc' = "nearest" =>
                 LET df == nearest_distance(D, path[1], rest)
                     db == nearest_distance(D, path[Len(path)], rest)
                 IN  /\ rest # {}
                     /\ IF df <= db
                        THEN /\ Tail(next) = path
                             /\ Head(next) \in rest
                             /\ D[path[1]][Head(next)] = df
                        ELSE /\ SubSeq(next, 1, Len(path)) = path
                             /\ Len(next) = Len(path) + 1
                             /\ next[Len(next)] \in rest
                             /\ D[path[Len(path)]][next[Len(next)]] = db
           /\ pc = "nearest" /\ pc' # "nearest" =>
                 /\ Len(path) = Len(D)
                 /\ rest = {}]_vars

\* a path of four nodes grown at both ends: the start node is inside it
C26_Witness ==
    /\ pc = "nearest"
    /\ Len(ro.diff_mat) = 4
    /\ LET path == ro.runs[ro.run].path
           start == select_initial_node(ro.diff_mat)[1]
       IN  /\ Len(path) = 4
           /\ path[1] # start
           /\ path[4] # start

-----------------------------------------------------------------------------
(* Directory round trip: mkfs_dump_inode writes a directory, the mount     *)
(* parses its tail (inode.rs fuse_load_inode_dir, inode/dir.rs fuse_load). *)
(*                                                                         *)
(* The state before mkfs_dump_inode is the one the walk and the inode      *)
(* allocation leave for a root directory with d entries: inode 1 is the    *)
(* root, inode k + 1 its k-th entry (an empty file, a symlink or an empty  *)
(* subdirectory); the inode vector lists the entries, then the root; the   *)
(* nids are consecutive slots after the superblock, in vector order.       *)

\* number of entries of a directory whose entries vary freely
MaxDirents == 3

\* file name lengths: shortest and longest
NameLengths == {1, 255}

\* directories with many entries of one kind: n regular files with names
\* of len bytes
BigDirs ==
    {[n |-> 2047, len |-> 20], [n |-> 2048, len |-> 20], [n |-> 5460, len |-> 4]}

\* entry k of a shape is <<file type, name length>>
DirShapes ==
    UNION {[1..d -> FileTypes \X NameLengths] : d \in 0..MaxDirents}
        \cup {[k \in 1..b.n |-> <<"File", b.len>>] : b \in BigDirs}

\* the inodes after the walk of a root directory of the given shape
FlatDirInodes(shape) ==
    LET d == Len(shape)
        dentries == [k \in 1..d |->
                        [file_name |-> k + 1, name_len |-> shape[k][2],
                         file_type |-> shape[k][1], inode |-> k + 1]]
        root == [path |-> 1, file_type |-> "Dir", size |-> dir_size(dentries),
                 nlink |-> 2 + Cardinality({k \in 1..d : shape[k][1] = "Dir"}),
                 ino |-> 0, nid |-> 0, parent |-> Some(1), dentries |-> dentries,
                 blk_id |-> None, extents |-> <<>>]
        entry(k) == [path |-> k + 1, file_type |-> shape[k][1],
                     size |-> CASE shape[k][1] = "Dir" -> dir_size(<<>>)
                                [] shape[k][1] = "Symlink" -> 1
                                [] OTHER -> 0,
                     nlink |-> IF shape[k][1] = "Dir" THEN 2 ELSE 1,
                     ino |-> k, nid |-> 0,
                     parent |-> IF shape[k][1] = "Dir" THEN Some(1) ELSE None,
                     dentries |-> <<>>, blk_id |-> None, extents |-> <<>>]
    IN  [h \in 1..(d + 1) |-> IF h = 1 THEN root ELSE entry(h - 1)]

\* the inode vector after that walk: the entries in order, then the root
FlatDirVec(shape) == [k \in 1..(Len(shape) + 1) |-> IF k <= Len(shape) THEN k + 1 ELSE 1]

\* the nids mkfs_balloc_inode gives after the superblock: every request is a
\* multiple of the slot size and is placed at the end of what is allocated.
\* Inode h is at position h - 1 of the vector, the root at the last.
WithNids(inos, vec) ==
    LET slots == [k \in 1..Len(vec) |->
                     round_up(inode_alloc_size(inos[vec[k]]), SizeOfCodexFsInode)
                         \div SizeOfCodexFsInode]
        first == codexfs_nid(round_up(SizeOfCodexFsSuperBlock, SizeOfCodexFsInode))
        ends == PrefixSums(slots, 1, Len(vec), first)
        pos(h) == IF h = 1 THEN Len(vec) ELSE h - 1
    IN  [h \in 1..Len(inos) |->
            [inos[h] EXCEPT !.nid = IF pos(h) = 1 THEN first ELSE ends[pos(h) - 1]]]

InitDir ==
    /\ pc = "dump_inode"
    /\ \E shape \in DirShapes :
           /\ inodes = WithNids(FlatDirInodes(shape), FlatDirVec(shape))
           /\ walk = [tree |-> <<>>, stack |-> <<>>, table |-> <<>>,
                      vec |-> FlatDirVec(shape), resolved |-> <<>>]
    /\ sb = [ino |-> Len(inodes), root |-> Some(1)]
    /\ img = <<>>
    /\ mnt = [status |-> "none"]
    /\ rd = NoRequest
    /\ bufmgr = Idle /\ allocs = Idle /\ cmpr_mgr = Idle /\ ro = Idle

LoadOk(dentries) == [status |-> "ok", dentries |-> dentries]

LoadPanic == [status |-> "panic", dentries |-> <<>>]

\* the bytes of the tail at [startoff, startoff + len): name i when that is
\* where name i was written, other bytes of the image otherwise
read_name(tail, i, startoff, len) ==
    IF tail.names_at[i] = startoff /\ tail.lens[i] = len
    THEN tail.names[i]
    ELSE <<"bytes", startoff, len>>

is_dot_or_dotdot(file_name) == file_name = Dot \/ file_name = DotDot

\* codexfs_dirent.nameoff / (size_of::<CodexFsDirent>() as u16)
dir_ndir(tail) == tail.dirents[1].nameoff \div SizeOfCodexFsDirent

\* fuse_load_inode_dir on what the image holds at a directory's slot: the
\* dentries loaded, in order, each with the nid its inode is loaded from.
\* endoff - startoff is a u16 subtraction: below zero it panics with
\* overflow checks and wraps without.
fuse_load_inode_dir(slot, overflow_checks) ==
    LET tail == slot.tail
        ndir == dir_ndir(tail)
        startoff(i) == tail.dirents[i].nameoff
        endoff(i) == IF i # ndir THEN tail.dirents[i + 1].nameoff
                     ELSE AsU16(slot.codexfs_inode.size)
        file_name(i) == read_name(tail, i, startoff(i), AsU16(endoff(i) - startoff(i)))
        children == SelectSeq([i \in 1..ndir |-> i],
                              LAMBDA i : ~is_dot_or_dotdot(file_name(i)))
    IN  IF overflow_checks /\ \E i \in 1..ndir : endoff(i) < startoff(i)
        THEN LoadPanic
        ELSE LoadOk([k \in 1..Len(children) |->
                        [file_name |-> file_name(children[k]),
                         file_type |-> tail.dirents[children[k]].file_type,
                         nid |-> tail.dirents[children[k]].nid]])

\* the mount loads the root directory from the nid the superblock names
FuseLoadRootDir(overflow_checks) ==
    /\ pc = "dumped_inode"
    /\ mnt' = fuse_load_inode_dir(ImgAt(img, inodes[sb.root[1]].nid), overflow_checks)
    /\ pc' = "dir_loaded"
    /\ UNCHANGED <<bufmgr, allocs, cmpr_mgr, inodes, sb, img, walk, rd, ro>>

NextDir ==
    \/ \E overflow_checks \in BOOLEAN : MkfsDumpInode(overflow_checks)
    \/ \E overflow_checks \in BOOLEAN : FuseLoadRootDir(overflow_checks)

SpecDir == InitDir /\ [][NextDir]_vars

\* the children of the root directory as the build knows them
BuildChildren ==
    [k \in 1..Len(inodes[1].dentries) |->
        [file_name |-> Name(inodes[1].dentries[k].file_name),
         file_type |-> inodes[1].dentries[k].file_type,
         nid |-> inodes[inodes[1].dentries[k].inode].nid]]

\* C10 (as claimed): a directory written by mkfs_dump_inode and parsed at
\* mount yields, after "." and "..", exactly the build-time children: same
\* names, same nids, same order.
C10_DirRoundTrip ==
    (pc = "dir_loaded" /\ mnt.status = "ok") => mnt.dentries = BuildChildren

\* C24 (as claimed): the tail written for a directory with d children has
\* d + 2 dirents, then the names ".", "..", child_0 .. child_(d-1) without
\* gaps: the first nameoff is (d + 2) * sizeof(dirent), every later nameoff
\* is the previous one plus the length of the previous name, every name is
\* written where its nameoff says, and the bytes end at tail start + size
\* with size = (d + 2) * sizeof(dirent) + 3 + the sum of the name lengths.
C24_DirTailLayout ==
    pc \in {"dumped_inode", "dir_loaded"} =>
        \A h \in DOMAIN inodes :
            inodes[h].file_type = "Dir" =>
                LET dir == inodes[h]
                    d == Len(dir.dentries)
                    tail == ImgAt(img, dir.nid).tail
                IN  /\ Len(tail.dirents) = d + 2
                    /\ tail.names = <<Dot, DotDot>>
                            \o [k \in 1..d |-> Name(dir.dentries[k].file_name)]
                    /\ tail.dirents[1].nameoff = (d + 2) * SizeOfCodexFsDirent
                    /\ \A k \in 1..(d + 1) :
                          tail.dirents[k + 1].nameoff =
                              tail.dirents[k].nameoff + tail.lens[k]
                    /\ \A k \in 1..(d + 2) : tail.names_at[k] = tail.dirents[k].nameoff
                    /\ tail.name_off = dir.size
                    /\ dir.size = (d + 2) * SizeOfCodexFsDirent + 3
                                      + SumNameLens(dir.dentries, 1, d)

-----------------------------------------------------------------------------
(* fuse.rs: kernel inode numbers *)

\* fuser::FUSE_ROOT_ID
FUSE_ROOT_ID == 1

\* get_sb().root().meta().inner.borrow().nid is root_nid
codexfsfuse_ino_to_nid(root_nid, ino) ==
    IF ino = FUSE_ROOT_ID THEN root_nid ELSE ino - FUSE_ROOT_ID

codexfsfuse_nid_to_ino_plain(root_nid, nid) == nid + FUSE_ROOT_ID

codexfsfuse_nid_to_ino(root_nid, nid) ==
    IF nid = root_nid THEN FUSE_ROOT_ID ELSE nid + FUSE_ROOT_ID

\* the nid of the root directory, which the superblock records
RootNid == inodes[sb.root[1]].nid

\* C11: once mkfs_balloc_inode has given every inode its nid, the root's nid
\* maps to kernel ino 1, every other inode's nid to nid + 1, ino_to_nid
\* undoes nid_to_ino on every inode's nid, and two distinct inodes have
\* distinct kernel inos.
C11_InoMappingBijective ==
    pc \in {"dump_inode", "dumped_inode"} =>
        /\ codexfsfuse_nid_to_ino(RootNid, RootNid) = 1
        /\ \A k \in 1..Len(walk.vec) :
               LET nid == inodes[walk.vec[k]].nid IN
               /\ nid # RootNid => codexfsfuse_nid_to_ino(RootNid, nid) = nid + 1
               /\ codexfsfuse_ino_to_nid(RootNid, codexfsfuse_nid_to_ino(RootNid, nid)) = nid
        /\ \A k, l \in 1..Len(walk.vec) :
               k # l => codexfsfuse_nid_to_ino(RootNid, inodes[walk.vec[k]].nid)
                            # codexfsfuse_nid_to_ino(RootNid, inodes[walk.vec[l]].nid)

\* a root with three inodes below it, one of them in the slot right after
\* the superblock, and the root not in the first inode slot
C11_Witness ==
    /\ pc = "dumped_inode"
    /\ Len(walk.vec) = 4
    /\ RootNid > 2
    /\ \E k \in 1..Len(walk.vec) :
           /\ inodes[walk.vec[k]].nid = 2
           /\ codexfsfuse_nid_to_ino(RootNid, 2) = 3

-----------------------------------------------------------------------------
(* fuse.rs: the mounted filesystem.                                        *)
(*                                                                         *)
(* The image is the one mkfs_dump_inode writes for a root directory whose  *)
(* entries are empty files, symlinks and empty subdirectories.  `mnt` is   *)
(* the inode table of the mount (the in-memory inode cache), keyed by the  *)
(* on-disk ino, which is the nid.  A dentry of a loaded directory names    *)
(* its inode by nid.  `rd` is the last request and the reply the handler   *)
(* gave: "none" when the handler returned without replying, "abort" when   *)
(* it panicked.  The kernel sends requests for the root and for the inodes *)
(* it has been told of, which are inodes of the table.                     *)

\* root directories of the mounted image: entry k is <<file type, name length>>
FuseShapes == UNION {[1..d -> FileTypes \X {1}] : d \in 0..MaxDirents}

\* Inode::from_codexfs_inode
from_codexfs_inode(codexfs_inode, nid) ==
    [nid |-> nid,
     ino |-> codexfs_inode.ino,
     file_type |-> codexfs_inode.file_type,
     size |-> codexfs_inode.size,
     nlink |-> codexfs_inode.nlink,
     dentries |-> <<>>,
     blk_id |-> None,
     extents |-> <<>>]

\* Inode::load_from_nid: the inode without its tail, inserted in the table
load_from_nid(image, table, nid) ==
    LET inode == from_codexfs_inode(ImgAt(image, nid).codexfs_inode, nid)
    IN  insert_inode(table, inode.ino, inode)

\* fuse_load_inode: the table after the call.  A file or symlink that is in
\* the table is returned from it; a directory is always loaded again, with
\* every inode below it.  dentries[from..] are the children still to load.
RECURSIVE fuse_load_inode(_, _, _, _)
RECURSIVE fuse_load_children(_, _, _, _, _)
fuse_load_children(image, table, dentries, from, overflow_checks) ==
    IF from > Len(dentries) THEN [status |-> "ok", table |-> table]
    ELSE LET r == fuse_load_inode(image, table, dentries[from].nid, overflow_checks)
         IN  IF r.status # "ok" THEN r
             ELSE fuse_load_children(image, r.table, dentries, from + 1, overflow_checks)

fuse_load_inode(image, table, nid, overflow_checks) ==
    LET slot == ImgAt(image, nid)
        codexfs_inode == slot.codexfs_inode
        plain == from_codexfs_inode(codexfs_inode, nid)
    IN  IF ~is_dir(codexfs_inode.file_type) /\ get_inode(table, codexfs_inode.ino) # None
        THEN [status |-> "ok", table |-> table]
        ELSE CASE codexfs_inode.file_type = "File" ->
                      LET file == fuse_load_inode_file(codexfs_inode, slot.tail.extents)
                      IN  [status |-> "ok",
                           table |-> insert_inode(table, plain.ino,
                                         [plain EXCEPT !.blk_id = file.blk_id,
                                                       !.extents = file.extents])]
               [] codexfs_inode.file_type = "Dir" ->
                      LET d == fuse_load_inode_dir(slot, overflow_checks)
                          below == fuse_load_children(image, table, d.dentries, 1,
                                                      overflow_checks)
                      IN  IF d.status # "ok" THEN [status |-> "panic", table |-> table]
                          ELSE IF below.status # "ok" THEN below
                          ELSE [status |-> "ok",
                                table |-> insert_inode(below.table, plain.ino,
                                              [plain EXCEPT !.dentries = d.dentries])]
               [] OTHER ->
                      [status |-> "ok", table |-> insert_inode(table, plain.ino, plain)]

\* codexfsfuse_inode_attr: the fields of FileAttr that depend on the inode
codexfsfuse_inode_attr(root_nid, inode) ==
    [ino |-> codexfsfuse_nid_to_ino(root_nid, inode.nid),
     size |-> IF inode.file_type = "File" THEN inode.size ELSE 0,
     kind |-> inode.file_type,
     nlink |-> inode.nlink]

\* codexfsfuse_get_inode: the table's inode for the ino the slot records
codexfsfuse_get_inode(image, table, root_nid, ino) ==
    get_inode(table, ImgAt(image, codexfsfuse_ino_to_nid(root_nid, ino)).codexfs_inode.ino)

\* the operations that would change the filesystem
MutatingOps ==
    {"setattr", "mknod", "mkdir", "unlink", "rmdir", "symlink", "rename", "link",
     "write", "create", "fallocate", "setxattr", "removexattr", "copy_file_range"}

mutating_errno_write_ok(op) == IF op = "write" THEN "ok" ELSE "ENOSYS"

\* reply.error(..) of the handler of each mutating operation
mutating_errno(op) == IF op \in {"symlink", "link"} THEN "EPERM" ELSE "ENOSYS"

\* the kernel inode numbers a request can carry
KnownInos == {codexfsfuse_nid_to_ino(RootNid, mnt[i].nid) : i \in DOMAIN mnt}

Request(op, ino, io_ok) == [op |-> op, ino |-> ino, io_ok |-> io_ok]

Reply(req, status, data) ==
    [op |-> req.op, ino |-> req.ino, io_ok |-> req.io_ok, status |-> status, data |-> data]

\* the state after mkfs has written the image and sb::fuse_load_super_block
\* has loaded the root inode from the superblock's root_nid
Mounted ==
    /\ pc = "serving"
    /\ \E shape \in FuseShapes :
           /\ inodes = WithNids(FlatDirInodes(shape), FlatDirVec(shape))
           /\ walk = [tree |-> <<>>, stack |-> <<>>, table |-> <<>>,
                      vec |-> FlatDirVec(shape), resolved |-> <<>>]
    /\ sb = [ino |-> Len(inodes), root |-> Some(1)]
    /\ img = [k \in 1..Len(walk.vec) |->
                 [nid |-> inodes[walk.vec[k]].nid,
                  at |-> dump_inode(inodes, inodes[walk.vec[k]])]]
    /\ mnt = load_from_nid(img, <<>>, RootNid)
    /\ rd = NoRequest
    /\ bufmgr = Idle /\ allocs = Idle /\ cmpr_mgr = Idle

InitFuse == Mounted /\ ro = Idle

UnchangedByFuse == UNCHANGED <<bufmgr, allocs, cmpr_mgr, inodes, sb, img, walk, ro>>

\* a handler whose read of the backing file fails: the Result is unwrapped
FuseAbort(req) ==
    /\ rd' = Reply(req, "abort", <<>>)
    /\ pc' = "aborted"
    /\ UNCHANGED mnt

\* getattr, lines 127-131
FuseGetattr(ino, io_ok, overflow_checks) ==
    /\ pc = "serving"
    /\ ino \in KnownInos
    /\ LET req == Request("getattr", ino, io_ok)
           nid == codexfsfuse_ino_to_nid(RootNid, ino)
           r == fuse_load_inode(img, mnt, nid, overflow_checks)
       IN  IF ~io_ok \/ r.status # "ok" THEN FuseAbort(req)
           ELSE /\ mnt' = r.table
                /\ rd' = Reply(req, "attr",
                               codexfsfuse_inode_attr(RootNid,
                                   r.table[ImgAt(img, nid).codexfs_inode.ino]))
                /\ UNCHANGED pc
    /\ UnchangedByFuse

\* lookup, lines 102-123: no reply when no dentry has the name
FuseLookup(parent, name, io_ok) ==
    /\ pc = "serving"
    /\ parent \in KnownInos
    /\ LET req == [op |-> "lookup", ino |-> parent, io_ok |-> io_ok, name |-> name]
           inode == codexfsfuse_get_inode(img, mnt, RootNid, parent)
       IN  IF ~io_ok \/ inode = None \/ ~is_dir(inode[1].file_type)
           THEN /\ rd' = [req EXCEPT !.io_ok = io_ok] @@ [status |-> "abort", data |-> <<>>]
                /\ pc' = "aborted"
           ELSE LET hits == {k \in 1..Len(inode[1].dentries) :
                                 inode[1].dentries[k].file_name = name}
                IN  /\ rd' = IF hits = {}
                             THEN req @@ [status |-> "none", data |-> <<>>]
                             ELSE LET k == CHOOSE x \in hits : \A y \in hits : x <= y
                                  IN  req @@ [status |-> "entry",
                                              data |-> codexfsfuse_inode_attr(RootNid,
                                                  mnt[inode[1].dentries[k].nid])]
                    /\ UNCHANGED pc
    /\ UNCHANGED mnt
    /\ UnchangedByFuse

\* the cookie is the position of the entry in the reply
readdir_cookie_in_reply(offset, index) == index + 1

\* offset + index as i64 + 1, index counted from 0 by enumerate() (line 399)
readdir_cookie(offset, index) == offset + index + 1

\* the entries readdir adds to the reply, lines 386-405: the dentries after
\* the first `offset`, until reply.add reports the buffer full
readdir_entries(dentries, offset, room) ==
    LET n == Min(room, IF offset < Len(dentries) THEN Len(dentries) - offset ELSE 0)
    IN  [index \in 1..n |->
            [ino |-> codexfsfuse_nid_to_ino(RootNid, dentries[offset + index].nid),
             offset |-> readdir_cookie(offset, index - 1),
             kind |-> dentries[offset + index].file_type,
             name |-> dentries[offset + index].file_name]]

\* readdir, lines 374-409: the dentries from position offset on, as many as
\* the reply buffer takes (room)
FuseReaddir(ino, offset, room, io_ok) ==
    /\ pc = "serving"
    /\ ino \in KnownInos
    /\ LET req == [op |-> "readdir", ino |-> ino, io_ok |-> io_ok,
                   offset |-> offset, room |-> room]
           inode == codexfsfuse_get_inode(img, mnt, RootNid, ino)
       IN  IF ~io_ok \/ inode = None \/ ~is_dir(inode[1].file_type)
           THEN /\ rd' = req @@ [status |-> "abort", data |-> <<>>]
                /\ pc' = "aborted"
           ELSE /\ rd' = req @@ [status |-> "ok",
                                 data |-> readdir_entries(inode[1].dentries, offset, room)]
                /\ UNCHANGED pc
    /\ UNCHANGED mnt
    /\ UnchangedByFuse

\* readlink, lines 159-168: the bytes after the inode's slot
FuseReadlink(ino, io_ok) ==
    /\ pc = "serving"
    /\ ino \in KnownInos
    /\ LET req == Request("readlink", ino, io_ok)
           inode == codexfsfuse_get_inode(img, mnt, RootNid, ino)
       IN  /\ inode # None
           /\ inode[1].file_type = "Symlink"
           /\ IF ~io_ok THEN FuseAbort(req)
              ELSE /\ rd' = Reply(req, "data", ImgAt(img, inode[1].nid).tail.link)
                   /\ UNCHANGED <<pc, mnt>>
    /\ UnchangedByFuse

\* read, lines 272-299, on a regular file
FuseReadFile(ino, off, len, io_ok) ==
    /\ pc = "serving"
    /\ ino \in KnownInos
    /\ LET req == Request("read", ino, io_ok)
           inode == codexfsfuse_get_inode(img, mnt, RootNid, ino)
       IN  /\ inode # None
           /\ inode[1].file_type = "File"
           /\ off + len <= inode[1].size
           /\ \E reply \in fuse_read_inode_file(<<>>, inode[1], off, len) :
                  IF ~io_ok \/ reply.status # "ok" THEN FuseAbort(req)
                  ELSE /\ rd' = Reply(req, "data", reply.buf)
                       /\ UNCHANGED <<pc, mnt>>
    /\ UnchangedByFuse

\* setattr .. link, write, create, fallocate, setxattr, removexattr,
\* copy_file_range: the handler logs the request and replies with an error
FuseMutating(op, ino) ==
    /\ pc = "serving"
    /\ ino \in KnownInos
    /\ rd' = Reply(Request(op, ino, TRUE), mutating_errno(op), <<>>)
    /\ UNCHANGED <<pc, mnt>>
    /\ UnchangedByFuse

\* names a lookup can ask for: an entry of the image, a name that is in no directory
LookupNames == {Name(2), Name(MaxDirents + 1), Name(0), DotDot}

NextFuse ==
    \/ /\ pc = "serving"
       /\ \E ino \in KnownInos, io_ok \in BOOLEAN, overflow_checks \in BOOLEAN :
              FuseGetattr(ino, io_ok, overflow_checks)
    \/ /\ pc = "serving"
       /\ \E parent \in KnownInos, name \in LookupNames, io_ok \in BOOLEAN :
              FuseLookup(parent, name, io_ok)
    \/ /\ pc = "serving"
       /\ \E ino \in KnownInos, offset \in {0, 1}, room \in {1, MaxDirents + 2},
             io_ok \in BOOLEAN :
              FuseReaddir(ino, offset, room, io_ok)
    \/ /\ pc = "serving"
       /\ \E ino \in KnownInos, io_ok \in BOOLEAN : FuseReadlink(ino, io_ok)
    \/ /\ pc = "serving"
       /\ \E ino \in KnownInos, io_ok \in BOOLEAN : FuseReadFile(ino, 0, 0, io_ok)
    \/ /\ pc = "serving"
       /\ \E op \in MutatingOps, ino \in KnownInos : FuseMutating(op, ino)

SpecFuse == InitFuse /\ [][NextFuse]_vars

\* C12: every step that serves a mutating operation (setattr, mknod, mkdir,
\* unlink, rmdir, symlink, rename, link, write, create, fallocate, setxattr,
\* removexattr, copy_file_range) replies ENOSYS or EPERM and changes neither
\* the image nor the inode table, whatever the table holds at that point.
C12_MutatingOpsRejected ==
    [][rd'.op \in MutatingOps =>
           /\ rd'.status \in {"ENOSYS", "EPERM"}
           /\ img' = img
           /\ mnt' = mnt]_vars

\* a symlink request refused after the root directory and its entries
\* have been loaded into the table
C12_Witness ==
    /\ pc = "serving"
    /\ rd.status = "EPERM"
    /\ rd.op = "symlink"
    /\ Cardinality(DOMAIN mnt) >= 3
    /\ \E i \in DOMAIN mnt : Len(mnt[i].dentries) >= 2

-----------------------------------------------------------------------------
(* codexfs-mkfs main.rs: the build sequence after the tree walk.           *)
(*                                                                         *)
(* The tree is a root directory whose entries are empty regular files,     *)
(* symlinks and empty subdirectories, so that the reorder step and the     *)
(* data-emission step run with and without files in the list while no      *)
(* data block is emitted.  An empty file has no TLSH digest: every pair    *)
(* of files is at distance DEFAULT_DIFF.                                   *)

\* construct_diff_map for n files without digest
construct_diff_map(n) ==
    [i \in 1..n |-> [j \in 1..n |-> IF i = j THEN 0 ELSE DEFAULT_DIFF]]

\* the paths the while loop of nearest_neighbor_dual_end can end with
RECURSIVE nearest_neighbor_paths(_, _, _)
nearest_neighbor_paths(diff_mat, path, unvisited) ==
    IF unvisited = {} THEN {path}
    ELSE LET front == path[1]
             back == path[Len(path)]
         IN  UNION {LET is_front == diff_mat[front][nf] <= diff_mat[back][nb]
                        candidate == IF is_front THEN nf ELSE nb
                    IN  nearest_neighbor_paths(diff_mat,
                            IF is_front THEN <<candidate>> \o path
                            ELSE Append(path, candidate),
                            unvisited \ {candidate}) :
                        <<nf, nb>> \in min_by_key(unvisited, diff_mat, front)
                                           \X min_by_key(unvisited, diff_mat, back)}

\* the orders CompressManager::optimize can leave the files in; None when
\* select_initial_node unwraps the minimum of no row
optimize(diff_mat) ==
    LET start == select_initial_node(diff_mat)
    IN  IF start = None THEN None
        ELSE Some({two_opt_optimize(p, diff_mat) :
                      p \in nearest_neighbor_paths(diff_mat, <<start[1]>>,
                                (1..Len(diff_mat)) \ {start[1]})})

\* the uncompressed emission: every file of the list gets its bytes at a
\* byte-granular address; st = [bm, inodes, log]
RECURSIVE dump_file_data_plain(_, _, _)
dump_file_data_plain(st, files, k) ==
    IF k > Len(files) THEN st
    ELSE LET h == files[k].inode
             r == balloc(st.bm, st.inodes[h].size, "Data")
         IN  dump_file_data_plain(
                 [bm |-> r.bm,
                  inodes |-> [st.inodes EXCEPT ![h].blk_id = Some(r.addr \div CODEXFS_BLKSIZ)],
                  log |-> Append(st.log,
                      [addr |-> r.addr, len |-> r.len, from |-> r.from, align |-> r.align,
                       btype |-> "Data", size |-> st.inodes[h].size, found |-> r.found])],
                 files, k + 1)

\* the target of a symbolic link of the source tree, as the bytes of its
\* path: `valid` bytes of well-formed UTF-8 and `invalid` bytes that are
\* each an ill-formed sequence of their own (a link target is any byte
\* string without NUL)
LinkTargets ==
    {[valid |-> 1, invalid |-> 0], [valid |-> 61, invalid |-> 1],
     [valid |-> 63, invalid |-> 1]}

\* symlink_metadata().len() of a link: the length of its target in bytes
metadata_len(link) == link.valid + link.invalid

\* link.to_string_lossy().as_bytes().len(): the well-formed bytes are kept
\* and every ill-formed sequence becomes U+FFFD, three bytes in UTF-8
to_string_lossy_len(link) == link.valid + 3 * link.invalid

\* the symbolic links among the inodes
Symlinks(inos) == {h \in DOMAIN inos : inos[h].file_type = "Symlink"}

\* main, lines 49-56: the arguments are parsed and the tree is loaded; `ro`
\* holds the targets of the links of the source tree, by path
InitMain ==
    /\ pc = "main"
    /\ \E shape \in FuseShapes :
           LET files == SelectSeq([k \in 1..Len(shape) |-> k + 1],
                                  LAMBDA h : shape[h - 1][1] = "File")
               flat == FlatDirInodes(shape)
           IN  /\ \E links \in [{flat[h].path : h \in Symlinks(flat)} -> LinkTargets] :
                      /\ ro = links
                      /\ inodes = [h \in DOMAIN flat |->
                                       IF h \in Symlinks(flat)
                                       THEN [flat[h] EXCEPT
                                                !.size = metadata_len(links[flat[h].path])]
                                       ELSE flat[h]]
               /\ walk = [tree |-> <<>>, stack |-> <<>>, table |-> <<>>,
                          vec |-> FlatDirVec(shape), resolved |-> <<>>]
               /\ cmpr_mgr = [CompressManagerNew EXCEPT
                                  !.files = [k \in 1..Len(files) |->
                                                [off |-> 0, inode |-> files[k]]]]
    /\ \E compress \in BOOLEAN :
           sb = [ino |-> Len(inodes), root |-> Some(1), compress |-> compress,
                 end_data_blk_id |-> 0, end_data_blk_sz |-> 0]
    /\ bufmgr = BufferManagerNew
    /\ allocs = <<>>
    /\ img = <<>>
    /\ mnt = Idle
    /\ rd = NoRequest

\* main, line 58
MainBallocSuperBlock ==
    /\ pc = "main"
    /\ LET r == balloc(bufmgr, SizeOfCodexFsSuperBlock, "Meta")
       IN  /\ bufmgr' = r.bm
           /\ allocs' = Append(allocs, [addr |-> r.addr, len |-> r.len, from |-> r.from,
                                        align |-> r.align, btype |-> "Meta",
                                        size |-> SizeOfCodexFsSuperBlock,
                                        found |-> r.found])
           /\ pc' = IF r.addr # 0 THEN "panic"
                    ELSE IF sb.compress THEN "reorder" ELSE "dump_file_data_plain"
    /\ UNCHANGED <<cmpr_mgr, inodes, sb, img, walk, mnt, rd, ro>>

\* main, line 64: CompressManager::reorder
MainReorder ==
    /\ pc = "reorder"
    /\ LET orders == optimize(construct_diff_map(Len(cmpr_mgr.files)))
       IN  IF orders = None
           THEN pc' = "panic" /\ UNCHANGED cmpr_mgr
           ELSE /\ \E path \in orders[1] :
                       cmpr_mgr' = [cmpr_mgr EXCEPT
                                        !.files = [k \in 1..Len(path) |-> cmpr_mgr.files[path[k]]]]
                /\ pc' = "dump_file_data"
    /\ UNCHANGED <<bufmgr, allocs, inodes, sb, img, walk, mnt, rd, ro>>

\* main, line 67: the uncompressed emission
MainDumpFileDataPlain ==
    /\ pc = "dump_file_data_plain"
    /\ LET st == dump_file_data_plain([bm |-> bufmgr, inodes |-> inodes, log |-> allocs],
                                      cmpr_mgr.files, 1)
       IN  /\ bufmgr' = st.bm
           /\ inodes' = st.inodes
           /\ allocs' = st.log
    /\ pc' = "dumped"
    /\ UNCHANGED <<cmpr_mgr, sb, img, walk, mnt, rd, ro>>

\* main, line 69
MainBallocInode ==
    /\ pc = "dumped"
    /\ LET st == balloc_inodes([bm |-> bufmgr, inodes |-> inodes, log |-> allocs],
                               walk.vec, 1)
       IN  /\ bufmgr' = st.bm
           /\ inodes' = st.inodes
           /\ allocs' = st.log
    /\ pc' = "dump_inode"
    /\ UNCHANGED <<cmpr_mgr, sb, img, walk, mnt, rd, ro>>

\* main, lines 71-72: the superblock is written and the image is padded
MainDumpSuperBlock ==
    /\ pc = "dumped_inode"
    /\ pc' = "done"
    /\ UNCHANGED <<bufmgr, allocs, cmpr_mgr, inodes, sb, img, walk, mnt, rd, ro>>

NextMain ==
    \/ MainBallocSuperBlock
    \/ MainReorder
    \/ DumpFileDataBegin
    \/ MainDumpFileDataPlain
    \/ MainBallocInode
    \/ \E overflow_checks \in BOOLEAN : MkfsDumpInode(overflow_checks)
    \/ MainDumpSuperBlock

SpecMain == InitMain /\ [][NextMain]_vars

\* the source tree holds no regular file
NoRegularFile == \A h \in DOMAIN inodes : inodes[h].file_type # "File"

\* C13 (as claimed): a build from a source tree without regular files never
\* aborts, in compressed or in uncompressed mode: not in the reorder step,
\* not in the data-emission step, nor anywhere else in the sequence.
C13_NoFileBuildCompletes ==
    NoRegularFile => pc # "panic"

\* C14 (as claimed): a readdir from offset 0 whose reply buffer takes every
\* entry lists "." and ".." as well as the children of the directory; on an
\* empty directory it lists exactly "." and "..".
C14_ReaddirListsDots ==
    (rd.status = "ok" /\ rd.offset = 0 /\ rd.room = MaxDirents + 2) =>
        LET names == {rd.data[k].name : k \in DOMAIN rd.data}
            dir == mnt[codexfsfuse_ino_to_nid(RootNid, rd.ino)]
        IN  /\ Dot \in names
            /\ DotDot \in names
            /\ Len(rd.data) = Len(dir.dentries) + 2

\* C15 (as claimed): a request (lookup, getattr, readlink, read, readdir)
\* during which a read of the backing file fails is answered with EIO: the
\* handler replies with the error and the process keeps serving.
C15_IoErrorRepliesEIO ==
    (rd.status # "none" /\ rd.op \in {"lookup", "getattr", "readlink", "read", "readdir"}
         /\ ~rd.io_ok) =>
        rd.status = "EIO" /\ pc = "serving"

\* position of inode h in the inode vector
VecPos(h) == CHOOSE k \in 1..Len(walk.vec) : walk.vec[k] = h

\* the region mkfs_balloc_inode allocated for inode h: the inodes are
\* allocated last, in vector order
InodeRegion(h) == allocs[Len(allocs) - Len(walk.vec) + VecPos(h)]

\* the tail bytes the claim counts for an inode
tail_size(inode) ==
    IF inode.file_type = "File" THEN SizeOfCodexFsExtent * Len(inode.extents)
    ELSE inode.size

\* number of bytes mkfs_dump_inode writes from slot nid + 1 on: the
\* extents, the dirents and names, or the bytes of the link as a string
dump_tail_len(inos, inode, links) ==
    CASE inode.file_type = "File" -> SizeOfCodexFsExtent * Len(inode.extents)
      [] inode.file_type = "Dir" -> dump_dir(inos, inode).name_off
      [] OTHER -> to_string_lossy_len(links[inode.path])

\* the steps of main before mkfs_balloc_inode
BeforeBallocInode ==
    {"main", "reorder", "dump_file_data", "compress", "dump_file_data_plain", "dumped"}

-----------------------------------------------------------------------------
(* utils.rs: round_up and round_down as the code computes them, on an      *)
(* unsigned integer type T of TBits bits.  An addition that leaves T       *)
(* panics when the build has overflow checks and wraps when it has not.    *)
(***************************************************************************)

\* width of T (u8 is the narrowest PrimInt)
TBits == 8

\* T::MAX
TMax == 2 ^ TBits - 1

\* x & y
RECURSIVE bitand(_, _)
bitand(x, y) ==
    IF x = 0 \/ y = 0 THEN 0
    ELSE (x % 2) * (y % 2) + 2 * bitand(x \div 2, y \div 2)

\* !x
bitnot(x) == TMax - x

\* the same without the decrement
round_up_bits_no_dec(value, alignment, overflow_checks) ==
    [panic |-> overflow_checks /\ value + alignment > TMax,
     val   |-> bitand((value + alignment) % (TMax + 1), bitnot(alignment - 1))]

\* round_up: (value + alignment - T::one()) & !(alignment - T::one()),
\* evaluated left to right: the sum first, then the decrement
round_up_bits(value, alignment, overflow_checks) ==
    LET sum == (value + alignment) % (TMax + 1)
        dec == (sum - 1) % (TMax + 1)
    IN  [panic |-> overflow_checks /\ value + alignment > TMax,
         val   |-> bitand(dec, bitnot(alignment - 1))]

\* round_down: value & !(alignment - T::one())
round_down_bits(value, alignment) == bitand(value, bitnot(alignment - 1))

\* the powers of two of T
Alignments == {2 ^ k : k \in 0..(TBits - 1)}

IdleOthersRound ==
    /\ bufmgr = Idle /\ allocs = Idle /\ cmpr_mgr = Idle /\ inodes = Idle
    /\ sb = Idle /\ img = Idle /\ walk = Idle /\ mnt = Idle /\ ro = Idle

InitRound ==
    /\ pc = "round"
    /\ \E value \in 0..TMax, alignment \in Alignments :
          rd = [value |-> value, alignment |-> alignment, status |-> "none"]
    /\ IdleOthersRound

RoundUp(overflow_checks) ==
    /\ pc = "round"
    /\ rd.status = "none"
    /\ rd' = [value |-> rd.value, alignment |-> rd.alignment, status |-> "done",
              op |-> "round_up", overflow_checks |-> overflow_checks,
              result |-> round_up_bits(rd.value, rd.alignment, overflow_checks)]
    /\ UNCHANGED <<pc, bufmgr, allocs, cmpr_mgr, inodes, sb, img, walk, mnt, ro>>

RoundDown ==
    /\ pc = "round"
    /\ rd.status = "none"
    /\ rd' = [value |-> rd.value, alignment |-> rd.alignment, status |-> "done",
              op |-> "round_down", overflow_checks |-> FALSE,
              result |-> [panic |-> FALSE,
                          val |-> round_down_bits(rd.value, rd.alignment)]]
    /\ UNCHANGED <<pc, bufmgr, allocs, cmpr_mgr, inodes, sb, img, walk, mnt, ro>>

NextRound ==
    \/ \E overflow_checks \in BOOLEAN : RoundUp(overflow_checks)
    \/ RoundDown

SpecRound == InitRound /\ [][NextRound]_vars

\* r is the least multiple of a that is >= v
LeastMultipleAbove(r, v, a) == r % a = 0 /\ r >= v /\ r - a < v

\* r is the greatest multiple of a that is <= v
GreatestMultipleBelow(r, v, a) == r % a = 0 /\ r <= v /\ r + a > v

\* what is claimed of a finished call, for the calls of round_up that
\* satisfy in_range
RoundExact(in_range) ==
    (pc = "round" /\ rd.status = "done") =>
        IF rd.op = "round_up"
        THEN in_range =>
                /\ ~rd.result.panic
                /\ LeastMultipleAbove(rd.result.val, rd.value, rd.alignment)
                /\ rd.value % rd.alignment = 0 => rd.result.val = rd.value
                /\ rd.result.val = round_up(rd.value, rd.alignment)
        ELSE /\ ~rd.result.panic
             /\ GreatestMultipleBelow(rd.result.val, rd.value, rd.alignment)
             /\ rd.value % rd.alignment = 0 => rd.result.val = rd.value
             /\ rd.result.val = round_down(rd.value, rd.alignment)

\* C18 (as claimed): for every value v of T and every power-of-two alignment
\* a, round_up(v, a) returns the least multiple of a that is >= v and
\* round_down(v, a) the greatest multiple of a that is <= v, and both return
\* v when v is a multiple of a.
C18_RoundExact == RoundExact(TRUE)

\* C18 (amended): round_down is exact for every v and power-of-two a;
\* round_up is exact when the sum v + a it forms stays within T, and, in a
\* build without overflow checks, whenever the rounded value is at most
\* T::MAX (v <= T::MAX + 1 - a).  The arithmetic round_up and round_down
\* used by the allocator model agree with the bit-level ones there.
C18_RoundExactInRange ==
    RoundExact(IF rd.overflow_checks THEN rd.value + rd.alignment <= TMax
               ELSE rd.value <= TMax + 1 - rd.alignment)

\* round_up(10, 8) = 16 with overflow checks, as in the unit test
C18_Witness ==
    /\ pc = "round" /\ rd.status = "done" /\ rd.op = "round_up"
    /\ rd.value = 10 /\ rd.alignment = 8 /\ rd.overflow_checks
    /\ rd.result = [panic |-> FALSE, val |-> 16]

-----------------------------------------------------------------------------
(* compress.rs: two_opt_optimize, one pass of its while loop at a time.    *)
(*                                                                         *)
(* The start path has n >= 1 files (the function is only called on the     *)
(* path of nearest_neighbor_dual_end, which holds the start node at least) *)
(* and the matrix is any matrix construct_diff_map builds.  The function   *)
(* reads the matrix only at pairs of path elements, so its run on a path p *)
(* and a matrix D is its run on the path 1..n and the matrix of the        *)
(* distances D[p[k]][p[l]], which is again one of these matrices: the      *)
(* paths 1..n and n..1 with every matrix stand for every start path.       *)
(* `ro` holds the matrix, the start path, `path` (equal to best_path       *)
(* throughout: both are assigned together) and the number of moves made.   *)

\* number of files of a start path
MaxTwoOptFiles == 5

\* the start paths: the files in list order, and in the opposite order
PathsOf(n) == {[k \in 1..n |-> k], [k \in 1..n |-> n + 1 - k]}

\* lines 208-243: the first move (i, j) the two for loops accept, None when
\* the scan ends with improved = false
two_opt_scan(path, diff_mat) ==
    LET n == Len(path)
        moves == {m \in (0..(n - 2)) \X (0..(n - 1)) :
                     m[2] >= m[1] + 2 /\ two_opt_improves(path, diff_mat, m[1], m[2])}
    IN  IF moves = {} THEN None
        ELSE Some(CHOOSE m \in moves :
                      \A o \in moves : m[1] < o[1] \/ (m[1] = o[1] /\ m[2] <= o[2]))

InitTwoOpt ==
    /\ pc = "two_opt_call"
    /\ ro = Idle
    /\ bufmgr = Idle /\ allocs = Idle /\ cmpr_mgr = Idle /\ inodes = Idle
    /\ sb = Idle /\ img = Idle /\ walk = Idle /\ mnt = Idle /\ rd = Idle

\* the call: best_path = path.to_vec() (lines 201-204)
TwoOptCall ==
    /\ pc = "two_opt_call"
    /\ \E n \in 1..MaxTwoOptFiles : \E m \in DiffMats(n) : \E p \in PathsOf(n) :
           ro' = [diff_mat |-> m, start |-> p, path |-> p, moves |-> 0]
    /\ pc' = "two_opt"
    /\ UnchangedByReorder

\* one iteration of `while improved` that ends with a move (lines 206-246)
TwoOptMove ==
    /\ pc = "two_opt"
    /\ two_opt_scan(ro.path, ro.diff_mat) # None
    /\ LET m == two_opt_scan(ro.path, ro.diff_mat)[1]
       IN  ro' = [ro EXCEPT !.path = two_opt_swap(@, m[1], m[2]),
                            !.moves = Min(@ + 1, 2)]
    /\ UNCHANGED pc
    /\ UnchangedByReorder

\* the iteration whose scan accepts no move: the loop ends and best_path
\* is returned (line 247)
TwoOptReturn ==
    /\ pc = "two_opt"
    /\ two_opt_scan(ro.path, ro.diff_mat) = None
    /\ pc' = "two_opt_done"
    /\ UNCHANGED ro
    /\ UnchangedByReorder

NextTwoOpt == TwoOptCall \/ TwoOptMove \/ TwoOptReturn

SpecTwoOpt == InitTwoOpt /\ [][NextTwoOpt]_vars

\* the returned path is a 2-opt local optimum: no reversal of
\* path[i+1 .. j-1] (indexes from 0, j an index of the path) costs less
TwoOptLocalOptimum ==
    \A i \in 0..(Len(ro.path) - 2) : \A j \in (i + 2)..(Len(ro.path) - 1) :
        calculate_total_cost(two_opt_swap(ro.path, i, j), ro.diff_mat)
            >= calculate_total_cost(ro.path, ro.diff_mat)

TwoOptReturned ==
    /\ pc = "two_opt_done"
    /\ {ro.path[k] : k \in 1..Len(ro.path)} = {ro.start[k] : k \in 1..Len(ro.start)}
    /\ Len(ro.path) = Len(ro.start)
    /\ TwoOptLocalOptimum
    /\ calculate_total_cost(ro.path, ro.diff_mat)
           <= calculate_total_cost(ro.start, ro.diff_mat)

\* C25: two_opt_optimize terminates for every start path over a symmetric
\* non-negative matrix, and what it returns is a permutation of the start
\* path, a 2-opt local optimum, and costs no more than the start path.
\* Termination is stated by its variant: the cost of best_path is a natural
\* number and every step of the loop either returns or lowers that cost (a
\* scan accepts a move or accepts none, so the loop always has a step), so
\* no run takes more steps than the cost of its start path.
C25_TwoOptTerminatesAtLocalOptimum ==
    /\ [](pc = "two_opt" => calculate_total_cost(ro.path, ro.diff_mat) \in Nat)
    /\ [][pc = "two_opt" =>
             \/ pc' = "two_opt_done"
             \/ calculate_total_cost(ro'.path, ro.diff_mat)
                    < calculate_total_cost(ro.path, ro.diff_mat)]_vars
    /\ [](pc = "two_opt_done" => TwoOptReturned)

\* a run that returned after two moves or more
C25_Witness ==
    /\ pc = "two_opt_done"
    /\ ro.moves = 2
    /\ ro.path # ro.start
    /\ calculate_total_cost(ro.path, ro.diff_mat)
           < calculate_total_cost(ro.start, ro.diff_mat)

-----------------------------------------------------------------------------
(* fuse_load_inode and the inode table, with the identity of the in-memory *)
(* inodes.  `mnt` is the memory of the mount: heap holds the inodes made   *)
(* by Rc::new, in the order they were made, and a handle (an Rc) is the    *)
(* position in heap of the inode it points to; table is the inode table,   *)
(* from ino to handle.  A dentry of a directory in memory holds the handle *)
(* of its child.  `rd` is the number of calls made and the last call.      *)
(*                                                                         *)
(* The image is a root directory as above, or one whose last entry is a    *)
(* hard link: a second name of the file or symlink of the first entry.     *)

\* number of fuse_load_inode calls after the mount
MaxLoads == 3

\* the inodes after the walk of a root whose last entry is another name of
\* the inode of the first: mkfs_load_inode finds the inode in its table and
\* increments nlink (lines 411-415)
HardLinkInodes(shape) ==
    LET d == Len(shape)
        flat == FlatDirInodes(SubSeq(shape, 1, d - 1))
        entry == [file_name |-> d + 1, name_len |-> shape[d][2],
                  file_type |-> shape[1][1], inode |-> 2]
        dentries == Append(flat[1].dentries, entry)
    IN  [h \in 1..d |->
            IF h = 1 THEN [flat[1] EXCEPT !.dentries = dentries,
                                          !.size = dir_size(dentries)]
            ELSE IF h = 2 THEN [flat[2] EXCEPT !.nlink = 2]
            ELSE flat[h]]

\* the roots of the images: a shape, and whether its last entry is a hard link
LoadShapes ==
    {[shape |-> s, linked |-> l] : s \in FuseShapes, l \in BOOLEAN} \
        {x \in [shape : FuseShapes, linked : {TRUE}] :
             \/ Len(x.shape) < 2
             \/ x.shape[1][1] = "Dir"
             \/ x.shape[Len(x.shape)] # x.shape[1]}

LoadInodes(x) == IF x.linked THEN HardLinkInodes(x.shape) ELSE FlatDirInodes(x.shape)

LoadVec(x) ==
    IF x.linked THEN FlatDirVec(SubSeq(x.shape, 1, Len(x.shape) - 1))
    ELSE FlatDirVec(x.shape)

\* Rc::new(RefCell::new(inode)) followed by insert_inode(ino, handle)
rc_new_insert(m, inode) ==
    [heap |-> Append(m.heap, inode),
     table |-> insert_inode(m.table, inode.ino, Len(m.heap) + 1)]

LoadFailed(m) == [status |-> "panic", m |-> m, handle |-> 0]

\* fuse_load_inode: the memory after the call and the handle returned.
\* dentries[from..] are the children still to load, loaded the dentries
\* already added to the directory.
RECURSIVE fuse_load_inode_rc(_, _, _, _)
RECURSIVE fuse_load_children_rc(_, _, _, _, _, _)
fuse_load_children_rc(image, m, dentries, from, loaded, overflow_checks) ==
    IF from > Len(dentries) THEN [status |-> "ok", m |-> m, dentries |-> loaded]
    ELSE LET r == fuse_load_inode_rc(image, m, dentries[from].nid, overflow_checks)
             child_dentry == [file_name |-> dentries[from].file_name,
                              file_type |-> dentries[from].file_type,
                              nid |-> dentries[from].nid,
                              inode |-> r.handle]
         IN  IF r.status # "ok" THEN [status |-> r.status, m |-> m, dentries |-> loaded]
             ELSE fuse_load_children_rc(image, r.m, dentries, from + 1,
                                        Append(loaded, child_dentry), overflow_checks)

fuse_load_inode_rc(image, m, nid, overflow_checks) ==
    LET slot == ImgAt(image, nid)
        codexfs_inode == slot.codexfs_inode
        plain == from_codexfs_inode(codexfs_inode, nid)
        cached == get_inode(m.table, codexfs_inode.ino)
    IN  IF ~is_dir(codexfs_inode.file_type) /\ cached # None
        THEN [status |-> "ok", m |-> m, handle |-> cached[1]]
        ELSE CASE codexfs_inode.file_type = "File" ->
                      LET file == fuse_load_inode_file(codexfs_inode, slot.tail.extents)
                          made == rc_new_insert(m, [plain EXCEPT !.blk_id = file.blk_id,
                                                                 !.extents = file.extents])
                      IN  [status |-> "ok", m |-> made, handle |-> Len(made.heap)]
               [] codexfs_inode.file_type = "Dir" ->
                      LET d == fuse_load_inode_dir(slot, overflow_checks)
                          below == fuse_load_children_rc(image, m, d.dentries, 1, <<>>,
                                                         overflow_checks)
                          made == rc_new_insert(below.m,
                                                [plain EXCEPT !.dentries = below.dentries])
                      IN  IF d.status # "ok" \/ below.status # "ok" THEN LoadFailed(m)
                          ELSE [status |-> "ok", m |-> made, handle |-> Len(made.heap)]
               [] OTHER ->
                      LET made == rc_new_insert(m, plain)
                      IN  [status |-> "ok", m |-> made, handle |-> Len(made.heap)]

\* the state after mkfs has written the image and the mount has loaded the
\* root inode, without its dentries, from the superblock's root_nid
InitLoad ==
    /\ pc = "loading"
    /\ \E x \in LoadShapes :
           /\ inodes = WithNids(LoadInodes(x), LoadVec(x))
           /\ walk = [tree |-> <<>>, stack |-> <<>>, table |-> <<>>,
                      vec |-> LoadVec(x), resolved |-> <<>>]
    /\ sb = [ino |-> Len(inodes), root |-> Some(1)]
    /\ img = [k \in 1..Len(walk.vec) |->
                 [nid |-> inodes[walk.vec[k]].nid,
                  at |-> dump_inode(inodes, inodes[walk.vec[k]])]]
    /\ mnt = rc_new_insert([heap |-> <<>>, table |-> <<>>],
                           from_codexfs_inode(ImgAt(img, RootNid).codexfs_inode, RootNid))
    /\ rd = [calls |-> 0, nid |-> 0, handle |-> 0]
    /\ bufmgr = Idle /\ allocs = Idle /\ cmpr_mgr = Idle /\ ro = Idle

\* one call of fuse_load_inode (a getattr of the inode, fuse.rs line 129)
FuseLoadInode(nid, overflow_checks) ==
    /\ pc = "loading"
    /\ rd.calls < MaxLoads
    /\ LET r == fuse_load_inode_rc(img, mnt, nid, overflow_checks)
       IN  IF r.status # "ok"
           THEN pc' = "aborted" /\ UNCHANGED <<mnt, rd>>
           ELSE /\ mnt' = r.m
                /\ rd' = [calls |-> rd.calls + 1, nid |-> nid, handle |-> r.handle]
                /\ UNCHANGED pc
    /\ UNCHANGED <<bufmgr, allocs, cmpr_mgr, inodes, sb, img, walk, ro>>

NextLoad ==
    \E k \in 1..Len(img), overflow_checks \in BOOLEAN :
        FuseLoadInode(img[k].nid, overflow_checks)

SpecLoad == InitLoad /\ [][NextLoad]_vars

\* the handles of the in-memory inodes
Handles == 1..Len(mnt.heap)

\* C27: after any sequence of fuse_load_inode calls the table maps every
\* loaded ino to one handle, of an inode with that ino; no file or symlink
\* has two in-memory inodes; a call for a file or symlink that is in the
\* table returns the table's handle and makes no inode; and every dentry of
\* a file or symlink, in any directory in memory, holds the table's handle
\* for its nid, so two names of one nid share one in-memory inode.
C27_OneInodePerNonDir ==
    /\ [](/\ \A ino \in DOMAIN mnt.table :
                 /\ mnt.table[ino] \in Handles
                 /\ mnt.heap[mnt.table[ino]].ino = ino
          /\ \A h \in Handles : mnt.heap[h].ino \in DOMAIN mnt.table
          /\ \A h1, h2 \in Handles :
                 /\ ~is_dir(mnt.heap[h1].file_type)
                 /\ mnt.heap[h1].ino = mnt.heap[h2].ino
                 => h1 = h2
          /\ \A h \in Handles : \A k \in 1..Len(mnt.heap[h].dentries) :
                 LET dentry == mnt.heap[h].dentries[k]
                 IN  ~is_dir(dentry.file_type) =>
                         /\ dentry.nid \in DOMAIN mnt.table
                         /\ dentry.inode = mnt.table[dentry.nid]
                         /\ mnt.heap[dentry.inode].nid = dentry.nid)
    /\ [][LET codexfs_inode == ImgAt(img, rd'.nid).codexfs_inode
          IN  /\ rd'.calls = rd.calls + 1
              /\ ~is_dir(codexfs_inode.file_type)
              /\ codexfs_inode.ino \in DOMAIN mnt.table
              => /\ rd'.handle = mnt.table[codexfs_inode.ino]
                 /\ mnt' = mnt]_vars

\* the root has been loaded twice, both of its in-memory inodes hold two
\* names of one nid with the same handle, and the last call, for that nid,
\* returned that handle
C27_Witness ==
    /\ pc = "loading"
    /\ rd.calls = 3
    /\ \E h1, h2 \in Handles :
           /\ h1 # h2
           /\ \A h \in {h1, h2} :
                  /\ mnt.heap[h].nid = RootNid
                  /\ Len(mnt.heap[h].dentries) >= 2
                  /\ mnt.heap[h].dentries[1].inode
                         = mnt.heap[h].dentries[Len(mnt.heap[h].dentries)].inode
                  /\ mnt.heap[h].dentries[1].inode = rd.handle
    /\ rd.nid # RootNid


\* the children stored in the on-disk tail of the directory a request names
StoredChildren(ino) ==
    fuse_load_inode_dir(ImgAt(img, codexfsfuse_ino_to_nid(RootNid, ino)), FALSE).dentries

\* C28 (as claimed): whatever requests came before, a readdir from offset 0
\* with room for every entry lists every child stored in the directory's
\* on-disk tail, and a lookup of the name of a stored child is answered
\* with its entry; also when it is the first request after the mount.
C28_DirRequestsSeeStoredChildren ==
    /\ "op" \in DOMAIN rd
    /\ rd.op \in {"readdir", "lookup"}
    /\ rd.io_ok
    /\ is_dir(ImgAt(img, codexfsfuse_ino_to_nid(RootNid, rd.ino)).codexfs_inode.file_type)
    => LET stored == StoredChildren(rd.ino)
       IN  /\ rd.op = "readdir" /\ rd.offset = 0 /\ rd.room >= Len(stored) =>
                 /\ rd.status = "ok"
                 /\ [k \in 1..Len(rd.data) |-> rd.data[k].name]
                        = [k \in 1..Len(stored) |-> stored[k].file_name]
           /\ rd.op = "lookup" /\ (\E k \in 1..Len(stored) : stored[k].file_name = rd.name) =>
                 rd.status = "entry"


-----------------------------------------------------------------------------
(* readdir resumption.  A client lists a directory of the mounted image:   *)
(* it opens it, then repeats readdir, each time passing the cookie of the  *)
(* last entry it received (0 at first), until a reply is empty.  `ro` is   *)
(* the client: the directory, the entries received so far, the cookie of   *)
(* the last, whether the empty reply has come, and the dentry list the     *)
(* directory had in memory when it was opened.  Other requests (getattr,   *)
(* which loads the directory again) come in between.                       *)

\* number of readdir requests of one listing
MaxReaddirs == 5

\* the dentry list of a directory in memory
DentriesOf(ino) == codexfsfuse_get_inode(img, mnt, RootNid, ino)[1].dentries

\* no directory is being listed
NoListing ==
    [ino |-> 0, listing |-> <<>>, cookie |-> 0, eof |-> TRUE, calls |-> 0,
     dentries |-> <<>>]

InitReaddir == Mounted /\ ro = NoListing

\* opendir, lines 370-372: the client starts a listing
ClientOpendir(ino) ==
    /\ pc = "serving"
    /\ ino \in KnownInos
    /\ is_dir(codexfsfuse_get_inode(img, mnt, RootNid, ino)[1].file_type)
    /\ ro' = [ino |-> ino, listing |-> <<>>, cookie |-> 0, eof |-> FALSE,
              calls |-> 0, dentries |-> DentriesOf(ino)]
    /\ rd' = Reply(Request("opendir", ino, TRUE), "opened", <<>>)
    /\ UNCHANGED <<pc, mnt, bufmgr, allocs, cmpr_mgr, inodes, sb, img, walk>>

\* readdir of the listing's directory from the client's cookie, with a
\* reply buffer that takes `room` entries
ClientReaddir(room) ==
    /\ pc = "serving"
    /\ ~ro.eof
    /\ ro.calls < MaxReaddirs
    /\ LET data == readdir_entries(DentriesOf(ro.ino), ro.cookie, room)
       IN  /\ rd' = [op |-> "readdir", ino |-> ro.ino, io_ok |-> TRUE,
                     offset |-> ro.cookie, room |-> room, status |-> "ok", data |-> data]
           /\ ro' = [ro EXCEPT !.listing = @ \o data,
                               !.cookie = IF data = <<>> THEN @ ELSE data[Len(data)].offset,
                               !.eof = data = <<>>,
                               !.calls = @ + 1]
    /\ UNCHANGED <<pc, mnt, bufmgr, allocs, cmpr_mgr, inodes, sb, img, walk>>

NextReaddir ==
    \/ /\ pc = "serving"
       /\ \E ino \in KnownInos, overflow_checks \in BOOLEAN :
              FuseGetattr(ino, TRUE, overflow_checks)
    \/ \E ino \in KnownInos : ClientOpendir(ino)
    \/ \E room \in 1..2 : ClientReaddir(room)

SpecReaddir == InitReaddir /\ [][NextReaddir]_vars

\* C29: entry k (from 0) of the dentry list is returned with cookie k + 1,
\* readdir from offset c returns the entries from index c on, and a client
\* that resumes from the last cookie it got receives every entry once, in
\* stored order, and then an empty reply.  Stated for the listings during
\* which the directory's dentry list is the one it had when opened.
C29_ReaddirResumes ==
    (ro # NoListing /\ DentriesOf(ro.ino) = ro.dentries) =>
        LET dentries == DentriesOf(ro.ino)
        IN  /\ Len(ro.listing) <= Len(dentries)
            /\ \A k \in 1..Len(ro.listing) :
                   /\ ro.listing[k].offset = (k - 1) + 1
                   /\ ro.listing[k].name = dentries[k].file_name
                   /\ ro.listing[k].kind = dentries[k].file_type
                   /\ ro.listing[k].ino = codexfsfuse_nid_to_ino(RootNid, dentries[k].nid)
            /\ ro.cookie = Len(ro.listing)
            /\ ro.eof => Len(ro.listing) = Len(dentries)
            /\ (rd.op = "readdir" /\ rd.offset < Len(dentries)) => rd.data # <<>>
            /\ rd.op = "readdir" =>
                   \A i \in 1..Len(rd.data) :
                       /\ rd.data[i].name = dentries[rd.offset + i].file_name
                       /\ rd.data[i].offset = rd.offset + i

\* a directory of three entries listed in three replies of one entry each,
\* and a fourth, empty reply
C29_Witness ==
    /\ ro.eof
    /\ ro.calls = 4
    /\ Len(ro.listing) = 3
    /\ Len(DentriesOf(ro.ino)) = 3


=============================================================================
